---- MODULE Spec2Model ----
(***************************************************************************)
(* react-mind: the mindmap editor hook (useMindmapEditor), the autosave    *)
(* pipeline of EditorShell and the Google-Sheets store adapter             *)
(* (googleSheetsService), as one state machine.                            *)
(*                                                                         *)
(* Ids are strings.  "root" is the root id; crypto.randomUUID() is a       *)
(* fresh-id allocator drawing the next unused element of IdPool.           *)
(* parentId = null is the value Null.                                      *)
(***************************************************************************)
EXTENDS Integers, Sequences, FiniteSets, TLC

\* ------------------------------------------------------------------ bounds
MaxIds == 2
MaxHistory == 4
MaxEditorHistory == 3
MaxCollapseHistory == 4
MaxAppendIds == 4
MaxAppendHistory == 7
MaxSyncHistory == 3
MaxSaves == 2            \* saveMindmap calls issued in a run
MaxPipelineSaves == 3    \* the same, in a run without failures and other clients
MaxLoads == 2            \* loadMindmap calls issued in a run
MaxSyncIds == 1          \* ids handed out in a run of the sync pipeline
MaxFaults == 1           \* failed fetches and writes by another client in a run
MaxSessionSaves == 1
MaxLockSaves == 1

\* ------------------------------------------------------------- value space
Null == "<null>"
RootId == "root"
IdPool == <<"n1", "n2", "n3", "n4", "n5", "n6">>
GhostId == "ghost"

DefaultTitle == "New Node"
InitialTitle == "Main Topic"
TitleInputs == {" B ", "  "}
IndexInputs == {-1, 1, 5}

\* A trim that returns its argument.
Trim_none(t) == t

\* String.prototype.trim on the title inputs.
Trim(t) ==
  CASE t = " B " -> "B"
    [] t = "  " -> ""
    [] OTHER -> t

\* String.prototype.localeCompare on the titles that occur: the collation
\* rank of a title.
TitleOrder == <<"A", "B", "Main Topic", "New Node", "S1", "S2", "Untitled">>
TitleRank(t) ==
  IF \E k \in 1..Len(TitleOrder) : TitleOrder[k] = t
    THEN CHOOSE k \in 1..Len(TitleOrder) : TitleOrder[k] = t
    ELSE 0
localeCompare(a, b) == TitleRank(a) - TitleRank(b)

\* --------------------------------------------------------------- variables
VARIABLES
  document,          \* EditorState.document: [id, title, nodes, edges]
  selectedNodeId,    \* EditorState.selectedNodeId
  collapsedNodeIds,  \* EditorState.collapsedNodeIds (as a set)
  history,           \* EditorState.history: Seq of snapshots
  historyIndex,      \* EditorState.historyIndex (0-based, as in the source)
  nextId,            \* number of ids crypto.randomUUID() has handed out
  lastOp,            \* the last operation called, its arguments, whether it took effect
  prevDoc,           \* the document as it was when the last operation was called
  shell,             \* EditorShell: React state and refs of the sync pipeline
  saves,             \* saveMindmap calls that have not settled
  loads,             \* loadMindmap calls that have not settled
  store,             \* the spreadsheet: data rows per sheet and the Meta sheet
  env,               \* the counters that bound a run
  ghost              \* history of the pipeline, for the claims

editorVars == <<document, selectedNodeId, collapsedNodeIds, history, historyIndex, nextId>>
syncVars == <<shell, saves, loads, store, env, ghost>>

\* --------------------------------------------------------- sequence helpers
NodeIds(nodes) == {nodes[k].id : k \in 1..Len(nodes)}
HasNode(nodes, id) == \E k \in 1..Len(nodes) : nodes[k].id = id
\* Array.prototype.find: the first node with that id.
FindNode(nodes, id) ==
  nodes[CHOOSE k \in 1..Len(nodes) :
          /\ nodes[k].id = id
          /\ \A j \in 1..(k - 1) : nodes[j].id # id]

\* A filter that keeps every node.
ChildrenOf_all(nodes, parentId) == nodes

\* Array.prototype.filter by parentId.
ChildrenOf(nodes, parentId) == SelectSeq(nodes, LAMBDA n : n.parentId = parentId)

\* ---------------------------------------------------------------- domain
createEmptyMindmap(id, title) ==
  [id |-> id, title |-> title,
   nodes |-> <<[id |-> RootId, title |-> title, parentId |-> Null, order |-> 0]>>,
   edges |-> << >>]

createSnapshot(doc, source) ==
  [nodes |-> doc.nodes, edges |-> doc.edges, source |-> source]

\* getDescendantIds: the least set holding rootId and closed under
\* "node.parentId is in the set"; the while loop runs to the fixpoint.
RECURSIVE DescendantsFrom(_, _)
DescendantsFrom(nodes, acc) ==
  LET more == {nodes[k].id : k \in {j \in 1..Len(nodes) :
                  /\ nodes[j].parentId # Null
                  /\ nodes[j].parentId \in acc
                  /\ nodes[j].id \notin acc}}
  IN IF more = {} THEN acc ELSE DescendantsFrom(nodes, acc \cup more)

\* A closure that stops at the start node: children are never collected.
getDescendantIds_selfOnly(nodes, rootId) == {rootId}

getDescendantIds(nodes, rootId) == DescendantsFrom(nodes, {rootId})

\* A delete closure that stops at the start node.
deleteClosure_selfOnly(nodes, nodeId) == {nodeId}

\* The descendant loop deleteNode runs inline (the same fixpoint).
deleteClosure(nodes, nodeId) == DescendantsFrom(nodes, {nodeId})

\* sortSiblingNodes: a stable sort by order, then title (localeCompare).
SiblingBefore(a, b) ==
  \/ a.order < b.order
  \/ a.order = b.order /\ localeCompare(a.title, b.title) < 0

RECURSIVE InsertSorted(_, _)
InsertSorted(sorted, n) ==
  IF sorted = << >> THEN <<n>>
  ELSE IF SiblingBefore(n, Head(sorted)) THEN <<n>> \o sorted
  ELSE <<Head(sorted)>> \o InsertSorted(Tail(sorted), n)

RECURSIVE sortSiblingNodes(_)
sortSiblingNodes(nodes) ==
  IF nodes = << >> THEN << >>
  ELSE InsertSorted(sortSiblingNodes(SubSeq(nodes, 1, Len(nodes) - 1)), nodes[Len(nodes)])

\* A push that appends without dropping the redo tail.
pushHistory_keepTail(hist, idx, doc) ==
  LET nextHistory == Append(hist, createSnapshot(doc, "manual"))
  IN [history |-> nextHistory, historyIndex |-> Len(nextHistory) - 1]

\* A push whose snapshot shares its nodes with the entry before it: that
\* entry shows the new nodes too.
pushHistory_sharedNodes(hist, idx, doc) ==
  LET kept == SubSeq(hist, 1, idx + 1)
      nextHistory == Append([kept EXCEPT ![idx + 1].nodes = doc.nodes], createSnapshot(doc, "manual"))
  IN [history |-> nextHistory, historyIndex |-> Len(nextHistory) - 1]

\* pushHistory: drop the redo tail, append the snapshot.
pushHistory(hist, idx, doc) ==
  LET nextHistory == Append(SubSeq(hist, 1, idx + 1), createSnapshot(doc, "manual"))
  IN [history |-> nextHistory, historyIndex |-> Len(nextHistory) - 1]

\* What lastOp records: the operation, the path its code took ("ok" when it
\* got past every guard, otherwise the guard that returned) and, for a call
\* that took effect or that the cycle guard of moveNode stopped, its id (and
\* title) arguments.  For undo and redo, b is the name of the operation they
\* directly follow when that one took effect (for a redo that directly
\* follows an undo: the operation that undo followed).
Op(name, a, b) == [op |-> name, a |-> a, b |-> b, path |-> "ok"]
Stopped(name, a, b, guard) == [op |-> name, a |-> a, b |-> b, path |-> guard]
NoOp(name, guard) == Stopped(name, Null, Null, guard)

\* Arguments a caller can pass: root, every id handed out so far (present or
\* deleted), the ids of the document, and an id that was never in any document.
ArgIds == {RootId, GhostId} \cup {IdPool[k] : k \in 1..nextId} \cup NodeIds(document.nodes)

\* ------------------------------------------------------------------- Init
InitialDocument == createEmptyMindmap("local-default", InitialTitle)

EditorInit ==
  /\ document = InitialDocument
  /\ selectedNodeId = RootId
  /\ collapsedNodeIds = {}
  /\ history = <<createSnapshot(InitialDocument, "manual")>>
  /\ historyIndex = 0
  /\ nextId = 0
  /\ lastOp = NoOp("init", "init")
  /\ prevDoc = InitialDocument

\* ---------------------------------------------------------------- actions
\* A call that returns the current state.
Return(name, guard) ==
  /\ lastOp' = NoOp(name, guard)
  /\ UNCHANGED editorVars

Commit_pruneEdges(nextNodes, sel, collapsed) ==
  LET nextDocument == [document EXCEPT
                         !.nodes = nextNodes,
                         !.edges = SelectSeq(@, LAMBDA e : /\ HasNode(nextNodes, e.fromNodeId)
                                                           /\ HasNode(nextNodes, e.toNodeId))]
      h == pushHistory(history, historyIndex, nextDocument)
  IN /\ document' = nextDocument
     /\ history' = h.history
     /\ historyIndex' = h.historyIndex
     /\ selectedNodeId' = sel
     /\ collapsedNodeIds' = collapsed

\* A commit that pushes the snapshot of the document it started from.
Commit_staleSnapshot(nextNodes, sel, collapsed) ==
  LET nextDocument == [document EXCEPT !.nodes = nextNodes]
      h == pushHistory(history, historyIndex, document)
  IN /\ document' = nextDocument
     /\ history' = h.history
     /\ historyIndex' = h.historyIndex
     /\ selectedNodeId' = sel
     /\ collapsedNodeIds' = collapsed

\* The state after an operation that replaces the nodes and pushes history.
Commit(nextNodes, sel, collapsed) ==
  LET nextDocument == [document EXCEPT !.nodes = nextNodes]
      h == pushHistory(history, historyIndex, nextDocument)
  IN /\ document' = nextDocument
     /\ history' = h.history
     /\ historyIndex' = h.historyIndex
     /\ selectedNodeId' = sel
     /\ collapsedNodeIds' = collapsed

addChildNode(parentId) ==
  /\ prevDoc' = document
  /\ IF ~HasNode(document.nodes, parentId)
       THEN Return("addChildNode", "noParent")
       ELSE /\ lastOp' = Op("addChildNode", parentId, Null)
            /\ LET siblings == ChildrenOf(document.nodes, parentId)
                   newNode == [id |-> IdPool[nextId + 1], title |-> DefaultTitle,
                               parentId |-> parentId, order |-> Len(siblings)]
               IN Commit(Append(document.nodes, newNode), newNode.id,
                         collapsedNodeIds \ {parentId})
            /\ nextId' = nextId + 1

addSiblingNode(nodeId) ==
  /\ prevDoc' = document
  /\ IF ~HasNode(document.nodes, nodeId)
       THEN Return("addSiblingNode", "noNode")
       ELSE IF FindNode(document.nodes, nodeId).parentId = Null
       THEN Return("addSiblingNode", "root")
       ELSE /\ lastOp' = Op("addSiblingNode", nodeId, Null)
            /\ LET currentNode == FindNode(document.nodes, nodeId)
                   siblings == ChildrenOf(document.nodes, currentNode.parentId)
                   newNode == [id |-> IdPool[nextId + 1], title |-> DefaultTitle,
                               parentId |-> currentNode.parentId, order |-> Len(siblings)]
               IN Commit(Append(document.nodes, newNode), newNode.id, collapsedNodeIds)
            /\ nextId' = nextId + 1

renameNode(nodeId, title) ==
  /\ prevDoc' = document
  /\ LET trimmed == Trim(title)
     IN IF trimmed = ""
          THEN Return("renameNode", "emptyTitle")
          ELSE /\ lastOp' = Op("renameNode", nodeId, trimmed)
               /\ Commit([k \in 1..Len(document.nodes) |->
                            IF document.nodes[k].id = nodeId
                              THEN [document.nodes[k] EXCEPT !.title = trimmed]
                              ELSE document.nodes[k]],
                         selectedNodeId, collapsedNodeIds)
               /\ UNCHANGED nextId

\* Map.set for every node of a list, in order.
RECURSIVE SetAll(_, _)
SetAll(map, list) ==
  IF list = << >> THEN map
  ELSE SetAll((Head(list).id :> Head(list)) @@ map, Tail(list))

\* A pass that leaves the order values as they are.
Renumbered_keep(list) == list

Renumbered(list) == [k \in 1..Len(list) |-> [list[k] EXCEPT !.order = k - 1]]

Max(a, b) == IF a > b THEN a ELSE b
Min(a, b) == IF a < b THEN a ELSE b

\* The nodes moveNode produces once its guards have passed.
MovedNodes(nodes, movingNode, nextParentId, nextIndex) ==
  LET remainingNodes == SelectSeq(nodes, LAMBDA n : n.id # movingNode.id)
      targetSiblings == sortSiblingNodes(ChildrenOf(remainingNodes, nextParentId))
      boundedIndex == Max(0, Min(nextIndex, Len(targetSiblings)))
      insertedNode == [movingNode EXCEPT !.parentId = nextParentId]
      spliced == SubSeq(targetSiblings, 1, boundedIndex) \o <<insertedNode>>
                   \o SubSeq(targetSiblings, boundedIndex + 1, Len(targetSiblings))
      base == SetAll(<< >>, remainingNodes)
      oldPass == IF movingNode.parentId = nextParentId THEN base
                 ELSE SetAll(base, Renumbered(sortSiblingNodes(
                        ChildrenOf(remainingNodes, movingNode.parentId))))
      updatedNodesById == SetAll(oldPass,
                            [k \in 1..Len(spliced) |->
                               [spliced[k] EXCEPT !.parentId = nextParentId, !.order = k - 1]])
  IN [k \in 1..Len(nodes) |-> updatedNodesById[nodes[k].id]]

moveNode(nodeId, nextParentId, nextIndex) ==
  /\ prevDoc' = document
  /\ IF ~HasNode(document.nodes, nodeId) \/ nodeId = RootId
       THEN Return("moveNode", "noNode")
       ELSE IF ~HasNode(document.nodes, nextParentId)
       THEN Return("moveNode", "noTarget")
       ELSE IF nextParentId \in getDescendantIds(document.nodes, nodeId)
       THEN /\ lastOp' = Stopped("moveNode", nodeId, nextParentId, "cycle")
            /\ UNCHANGED editorVars
       ELSE /\ lastOp' = Op("moveNode", nodeId, nextParentId)
            /\ Commit(MovedNodes(document.nodes, FindNode(document.nodes, nodeId),
                                 nextParentId, nextIndex),
                      nodeId, collapsedNodeIds)
            /\ UNCHANGED nextId

\* A delete that leaves the collapsed-set as it is.
deleteNode_keepCollapsed(nodeId) ==
  /\ prevDoc' = document
  /\ IF nodeId = RootId
       THEN Return("deleteNode", "root")
       ELSE /\ lastOp' = Op("deleteNode", nodeId, Null)
            /\ LET descendants == deleteClosure(document.nodes, nodeId)
               IN Commit(SelectSeq(document.nodes, LAMBDA n : n.id \notin descendants),
                         RootId, collapsedNodeIds)
            /\ UNCHANGED nextId

deleteNode(nodeId) ==
  /\ prevDoc' = document
  /\ IF nodeId = RootId
       THEN Return("deleteNode", "root")
       ELSE /\ lastOp' = Op("deleteNode", nodeId, Null)
            /\ LET descendants == deleteClosure(document.nodes, nodeId)
               IN Commit(SelectSeq(document.nodes, LAMBDA n : n.id \notin descendants),
                         RootId, collapsedNodeIds \ descendants)
            /\ UNCHANGED nextId

\* The operation an undo or redo directly follows, if that one took effect.
Directly == IF lastOp.path = "ok" THEN lastOp.op ELSE Null

\* The operation whose undo a redo directly follows.
Undone == IF lastOp.op = "undo" /\ lastOp.path = "ok" THEN lastOp.b ELSE Null

\* A restore that takes the nodes of the snapshot and leaves the edges.
Restored_nodesOnly(snapshot) == [document EXCEPT !.nodes = snapshot.nodes]

\* The live document with a snapshot's nodes and edges.
Restored(snapshot) == [document EXCEPT !.nodes = snapshot.nodes, !.edges = snapshot.edges]

\* An undo that leaves the collapsed-set as it is.
undo_keepCollapsed ==
  /\ prevDoc' = document
  /\ IF historyIndex <= 0
       THEN Return("undo", "atStart")
       ELSE /\ lastOp' = Op("undo", Null, Directly)
            /\ historyIndex' = historyIndex - 1
            /\ document' = Restored(history[historyIndex])
            /\ UNCHANGED <<selectedNodeId, collapsedNodeIds, history, nextId>>

undo ==
  /\ prevDoc' = document
  /\ IF historyIndex <= 0
       THEN Return("undo", "atStart")
       ELSE /\ lastOp' = Op("undo", Null, Directly)
            /\ historyIndex' = historyIndex - 1
            /\ document' = Restored(history[historyIndex])
            /\ collapsedNodeIds' = {}
            /\ UNCHANGED <<selectedNodeId, history, nextId>>

redo ==
  /\ prevDoc' = document
  /\ IF historyIndex >= Len(history) - 1
       THEN Return("redo", "atEnd")
       ELSE /\ lastOp' = Op("redo", Null, Undone)
            /\ historyIndex' = historyIndex + 1
            /\ document' = Restored(history[historyIndex + 2])
            /\ collapsedNodeIds' = {}
            /\ UNCHANGED <<selectedNodeId, history, nextId>>

normalizeDocument(doc) ==
  IF HasNode(doc.nodes, RootId) THEN doc
  ELSE [doc EXCEPT !.nodes =
          <<[id |-> RootId,
             title |-> IF doc.title # "" THEN doc.title ELSE InitialTitle,
             parentId |-> Null, order |-> 0]>> \o doc.nodes]

importDocument_keepCollapsed(doc) ==
  /\ prevDoc' = document
  /\ lastOp' = Op("importDocument", Null, Null)
  /\ LET nextDocument == normalizeDocument(doc)
         h == pushHistory(history, historyIndex, nextDocument)
     IN /\ document' = nextDocument
        /\ history' = h.history
        /\ historyIndex' = h.historyIndex
        /\ selectedNodeId' = IF Len(nextDocument.nodes) > 0 THEN nextDocument.nodes[1].id ELSE Null
  /\ UNCHANGED <<collapsedNodeIds, nextId>>

importDocument(doc) ==
  /\ prevDoc' = document
  /\ lastOp' = Op("importDocument", Null, Null)
  /\ LET nextDocument == normalizeDocument(doc)
         h == pushHistory(history, historyIndex, nextDocument)
     IN /\ document' = nextDocument
        /\ history' = h.history
        /\ historyIndex' = h.historyIndex
        /\ selectedNodeId' = IF Len(nextDocument.nodes) > 0 THEN nextDocument.nodes[1].id ELSE Null
        /\ collapsedNodeIds' = {}
  /\ UNCHANGED nextId

selectNode(nodeId) ==
  /\ prevDoc' = document
  /\ lastOp' = Op("selectNode", Null, Null)
  /\ selectedNodeId' = nodeId
  /\ UNCHANGED <<document, collapsedNodeIds, history, historyIndex, nextId>>

toggleNodeCollapsed(nodeId) ==
  /\ prevDoc' = document
  /\ IF nodeId = RootId
       THEN Return("toggleNodeCollapsed", "root")
       ELSE IF ChildrenOf(document.nodes, nodeId) = << >>
       THEN Return("toggleNodeCollapsed", "noChildren")
       ELSE /\ lastOp' = Op("toggleNodeCollapsed", nodeId, Null)
            /\ collapsedNodeIds' = IF nodeId \in collapsedNodeIds
                                     THEN collapsedNodeIds \ {nodeId}
                                     ELSE collapsedNodeIds \cup {nodeId}
            /\ UNCHANGED <<document, selectedNodeId, history, historyIndex, nextId>>

\* Documents a caller hands to importDocument: an empty mindmap, one with a
\* node and an edge made elsewhere, and one without a root node.
RemoteNode == [id |-> "r1", title |-> "A", parentId |-> RootId, order |-> 0]
RemoteEdge == [id |-> "e1", fromNodeId |-> RootId, toNodeId |-> "r1"]
DocWithEdge ==
  [id |-> "B1", title |-> "S2",
   nodes |-> <<[id |-> RootId, title |-> "S2", parentId |-> Null, order |-> 0], RemoteNode>>,
   edges |-> <<RemoteEdge>>]
DocNoRoot ==
  [id |-> "B1", title |-> "", nodes |-> <<[RemoteNode EXCEPT !.parentId = Null]>>, edges |-> << >>]
DocNoNodes == [id |-> "B1", title |-> "S1", nodes |-> << >>, edges |-> << >>]
ImportDocs == {createEmptyMindmap("B1", "S1"), DocWithEdge, DocNoRoot, DocNoNodes}

\* ------------------------------------------------------- the sheets store
\* One spreadsheet with two graph sheets.  A token is the value of an
\* updatedAtIso key of the Meta sheet: a time, NoToken when the key is absent
\* or empty.  Times are only ever compared for equality, and every reading of
\* new Date() differs from the times read before: the time a writer takes is
\* the least number that is no token held anywhere (FreshTime), the time a
\* load takes, which is never stored, is LoadTime.
SpreadsheetId == "B1"
Sheets == {"S1", "S2"}
NoToken == 0
LoadTime == 200

Least(S) == CHOOSE n \in S : \A m \in S : n <= m

MetaTokens(metaMap) == {metaMap.updatedAtIso} \cup {metaMap.perTitle[t] : t \in Sheets}

FreshTime ==
  LET held == MetaTokens(store.meta) \cup {shell.remoteUpdatedAtRef}
                \cup UNION {MetaTokens(r.metaMap) : r \in saves}
  IN Least((1..(Cardinality(held) + 1)) \ held)

EmptyMeta == [updatedAtIso |-> NoToken, perTitle |-> [t \in Sheets |-> NoToken]]

\* metaMap["updatedAtIso:" + title] || metaMap.updatedAtIso
StoredToken(metaMap, title) ==
  IF metaMap.perTitle[title] # NoToken THEN metaMap.perTitle[title] ELSE metaMap.updatedAtIso

\* String(order): the cell of an order, and Number(cell) of the cells that
\* occur (the decimal numerals of OrderRange).
OrderRange == 0..16
OrderCell(order) == ToString(order)
Number(cell) == CHOOSE n \in OrderRange : ToString(n) = cell

nodeRow(n) ==
  [kind |-> "node", id |-> n.id, title |-> n.title,
   parentId |-> IF n.parentId = Null THEN "" ELSE n.parentId,
   order |-> OrderCell(n.order), fromNodeId |-> "", toNodeId |-> ""]

edgeRow(e) ==
  [kind |-> "edge", id |-> e.id, title |-> "", parentId |-> "",
   order |-> "", fromNodeId |-> e.fromNodeId, toNodeId |-> e.toNodeId]

\* The data rows (the header row is left out of the model).
buildGraphRows(doc) ==
  [k \in 1..Len(doc.nodes) |-> nodeRow(doc.nodes[k])]
    \o [k \in 1..Len(doc.edges) |-> edgeRow(doc.edges[k])]

parseNodes(rows) ==
  LET kept == SelectSeq(rows, LAMBDA r : r.kind = "node" /\ r.id # "")
  IN [k \in 1..Len(kept) |->
        [id |-> kept[k].id,
         title |-> IF kept[k].title = "" THEN "Untitled" ELSE kept[k].title,
         parentId |-> IF kept[k].parentId = "" THEN Null ELSE kept[k].parentId,
         order |-> IF kept[k].order = "" THEN 0 ELSE Number(kept[k].order)]]

parseEdges(rows) ==
  LET kept == SelectSeq(rows, LAMBDA r : r.kind = "edge" /\ r.id # ""
                                          /\ r.fromNodeId # "" /\ r.toNodeId # "")
  IN [k \in 1..Len(kept) |->
        [id |-> kept[k].id, fromNodeId |-> kept[k].fromNodeId, toNodeId |-> kept[k].toNodeId]]

ensureRootNode(doc) ==
  IF HasNode(doc.nodes, RootId) THEN doc
  ELSE [doc EXCEPT !.nodes =
          <<[id |-> RootId, title |-> doc.title, parentId |-> Null, order |-> 0]>> \o doc.nodes]

\* What loadMindmap returns for the rows it read (updatedAtIso apart).
loadedDocument(rows, title) ==
  IF Len(rows) = 0 \/ Len(parseNodes(rows)) = 0
    THEN createEmptyMindmap(SpreadsheetId, title)
    ELSE ensureRootNode([id |-> SpreadsheetId, title |-> title,
                         nodes |-> parseNodes(rows), edges |-> parseEdges(rows)])

\* A write of values to A1:G leaves the rows below the written ones in place.
Overlay(old, new) == new \o SubSeq(old, Len(new) + 1, Len(old))

\* saveMindmap clears the rows clearStartRow..clearStartRow + ClearSpan below
\* the ones it wrote.
ClearSpan == 999
EmptyRow ==
  [kind |-> "", id |-> "", title |-> "", parentId |-> "", order |-> "",
   fromNodeId |-> "", toNodeId |-> ""]
\* The rows of a sheet after the clear that follows a write of `written` rows;
\* a read of the sheet ends at its last row that is not empty.
ClearedBelow(rows, written) ==
  LET clearStartRow == written + 1
      clearEndRow == clearStartRow + ClearSpan
  IN IF Len(rows) <= clearEndRow
       THEN SubSeq(rows, 1, Min(Len(rows), written))
       ELSE [k \in 1..Len(rows) |->
               IF k >= clearStartRow /\ k <= clearEndRow THEN EmptyRow ELSE rows[k]]

\* The rows of the sheet and the Meta map once saveMindmap has written both.
SavedRows(old, doc) ==
  ClearedBelow(Overlay(old, buildGraphRows(ensureRootNode(doc))),
               Len(buildGraphRows(ensureRootNode(doc))))
SavedMeta(metaMap, title, nowIso) ==
  [metaMap EXCEPT !.updatedAtIso = nowIso, !.perTitle[title] = nowIso]

\* The sheets as initializeGraphSheet leaves them: an empty mindmap each.
InitialStore ==
  [rows |-> [t \in Sheets |-> buildGraphRows(createEmptyMindmap(SpreadsheetId, t))],
   meta |-> [updatedAtIso |-> 2, perTitle |-> [t \in Sheets |-> IF t = "S1" THEN 1 ELSE 2]]]

\* What another client writes into a sheet.
RemoteRows(title) ==
  buildGraphRows([id |-> SpreadsheetId, title |-> title,
                  nodes |-> <<[id |-> RootId, title |-> title, parentId |-> Null, order |-> 0],
                              RemoteNode>>,
                  edges |-> <<RemoteEdge>>])

\* ------------------------------------------------------ the autosave pipeline
createDocumentSignature(doc) ==
  [title |-> doc.title,
   nodes |-> [k \in 1..Len(doc.nodes) |->
                [id |-> doc.nodes[k].id, title |-> doc.nodes[k].title,
                 parentId |-> doc.nodes[k].parentId, order |-> doc.nodes[k].order]],
   edges |-> doc.edges]

\* lastSavedSignatureRef before anything was loaded or saved.
NoSignature == [title |-> "", nodes |-> << >>, edges |-> << >>]

canEditGraph(s) ==
  /\ s.authState = "authorized"
  /\ s.selectedSpreadsheetId # ""
  /\ s.selectedSheetTitle # ""
  /\ s.graphLoaded

\* autosaveVersionRef.current += 1.  The ref only grows, and it is only ever
\* compared for equality with the version of a request on its way: the value
\* it gets here is the least one that is neither its present value nor the
\* version of such a request, which leaves every comparison as it is.
NextVersion(s) ==
  LET held == {s.autosaveVersionRef} \cup {r.requestVersion : r \in saves}
  IN Least((1..(Cardinality(held) + 1)) \ held)

invalidateAutosavePipeline(s) ==
  [s EXCEPT !.autosaveVersionRef = NextVersion(s),
            !.saveInFlightRef = FALSE,
            !.saveQueuedRef = FALSE,
            !.autosaveTimerRef = {},
            !.isAutoSaving = FALSE]

\* The effect on [authState, selectedSpreadsheetId, selectedSheetTitle, graphLoaded].
InvalidationEffect(s) == IF canEditGraph(s) THEN s ELSE invalidateAutosavePipeline(s)

documentForSave(doc, s) == [doc EXCEPT !.title = s.selectedSheetTitle]

\* The label of the status chip; isTaskPending holds while runTask runs.
syncLabel(s, isTaskPending) ==
  IF s.hasSyncConflict THEN "Conflict"
  ELSE IF s.syncStatus = "auto-saving..." \/ isTaskPending \/ s.isAutoSaving THEN "Saving"
  ELSE IF s.syncStatus = "auto-saved" THEN "Synced"
  ELSE IF s.syncStatus = "error" THEN "Error"
  ELSE "Idle"

\* An autosave effect that goes on while a conflict is flagged.
AutosaveEffect_noConflictGuard(s0, doc) ==
  LET s == [s0 EXCEPT !.autosaveTimerRef = {}]
      signature == createDocumentSignature(documentForSave(doc, s))
  IN IF ~canEditGraph(s) \/ signature = s.lastSavedSignatureRef
       THEN [s EXCEPT !.isAutoSaving = FALSE]
     ELSE IF s.saveInFlightRef
       THEN [s EXCEPT !.saveQueuedRef = TRUE, !.syncStatus = "auto-saving...",
                      !.isAutoSaving = TRUE]
     ELSE [s EXCEPT !.syncStatus = "auto-saving...",
                    !.isAutoSaving = TRUE,
                    !.autosaveVersionRef = NextVersion(s),
                    !.autosaveTimerRef =
                      {[requestVersion |-> NextVersion(s),
                        sheetTitle |-> s.selectedSheetTitle,
                        document |-> documentForSave(doc, s)]}]

\* An autosave effect whose cleanup leaves the timer of the previous run running.
AutosaveEffect_noCleanup(s0, doc) ==
  LET s == s0
      signature == createDocumentSignature(documentForSave(doc, s))
  IN IF ~canEditGraph(s) \/ s.hasSyncConflict \/ signature = s.lastSavedSignatureRef
       THEN [s EXCEPT !.isAutoSaving = FALSE]
     ELSE IF s.saveInFlightRef
       THEN [s EXCEPT !.saveQueuedRef = TRUE, !.syncStatus = "auto-saving...",
                      !.isAutoSaving = TRUE]
     ELSE [s EXCEPT !.syncStatus = "auto-saving...",
                    !.isAutoSaving = TRUE,
                    !.autosaveVersionRef = NextVersion(s),
                    !.autosaveTimerRef =
                      @ \cup {[requestVersion |-> NextVersion(s),
                               sheetTitle |-> s.selectedSheetTitle,
                               document |-> documentForSave(doc, s)]}]

\* The autosave effect, after the cleanup of its previous run has cleared the
\* timer that run started.  A started timer is kept with what its callback
\* closes over; the signature it closes over is that of the document it
\* closes over.
AutosaveEffect(s0, doc) ==
  LET s == [s0 EXCEPT !.autosaveTimerRef = {}]
      signature == createDocumentSignature(documentForSave(doc, s))
  IN IF ~canEditGraph(s) THEN [s EXCEPT !.isAutoSaving = FALSE]
     ELSE IF s.hasSyncConflict
       THEN [s EXCEPT !.isAutoSaving = FALSE, !.syncStatus = "conflict detected"]
     ELSE IF signature = s.lastSavedSignatureRef THEN [s EXCEPT !.isAutoSaving = FALSE]
     ELSE IF s.saveInFlightRef
       THEN [s EXCEPT !.saveQueuedRef = TRUE, !.syncStatus = "auto-saving...",
                      !.isAutoSaving = TRUE]
     ELSE [s EXCEPT !.syncStatus = "auto-saving...",
                    !.isAutoSaving = TRUE,
                    !.autosaveVersionRef = NextVersion(s),
                    !.autosaveTimerRef =
                      {[requestVersion |-> NextVersion(s),
                        sheetTitle |-> s.selectedSheetTitle,
                        document |-> documentForSave(doc, s)]}]

\* Whether the render that turns state `before` into `after` re-runs the
\* autosave effect (one of its dependencies changed).
Reruns(before, after, documentChanged, triggered) ==
  \/ canEditGraph(after) # canEditGraph(before)
  \/ after.selectedSpreadsheetId # before.selectedSpreadsheetId
  \/ after.selectedSheetTitle # before.selectedSheetTitle
  \/ after.hasSyncConflict # before.hasSyncConflict
  \/ documentChanged
  \/ triggered

\* The shell after the render that follows a handler: the effects whose
\* dependencies changed run in the order they are declared.
Rendered(before, after, doc, documentChanged, triggered) ==
  LET invalidated ==
        IF <<after.authState, after.selectedSpreadsheetId, after.selectedSheetTitle, after.graphLoaded>>
             # <<before.authState, before.selectedSpreadsheetId, before.selectedSheetTitle, before.graphLoaded>>
          THEN InvalidationEffect(after)
          ELSE after
  IN IF Reruns(before, after, documentChanged, triggered)
       THEN AutosaveEffect(invalidated, doc)
       ELSE invalidated

\* The component after mount: both effects have run once.
InitialShell ==
  [authState |-> "idle",
   selectedSpreadsheetId |-> "",
   selectedSheetTitle |-> "",
   graphLoaded |-> FALSE,
   hasSyncConflict |-> FALSE,
   syncStatus |-> "idle",
   isAutoSaving |-> FALSE,
   autosaveTimerRef |-> {},
   saveInFlightRef |-> FALSE,
   saveQueuedRef |-> FALSE,
   lastSavedSignatureRef |-> NoSignature,
   remoteUpdatedAtRef |-> NoToken,
   autosaveVersionRef |-> 1,
   editingNodeId |-> Null,
   openMenus |-> {},
   toggleTasks |-> {},
   activeFileModal |-> Null,
   logoutPending |-> FALSE]

SyncInit ==
  /\ shell = InitialShell
  /\ saves = {}
  /\ loads = {}
  /\ store = InitialStore
  /\ env = [saves |-> 0, loads |-> 0, faults |-> 0]
  /\ ghost = [issued |-> 0, failed |-> FALSE, burstEdits |-> 0, burstSaves |-> 0,
              signedOut |-> FALSE]

\* ---------------------------------------------------- history for the claims
\* What the autosave handler compares: the signature of the document it would save.
Content(doc, s) == createDocumentSignature(documentForSave(doc, s))

\* Nothing of the pipeline is under way and editing is permitted.
Quiet ==
  /\ canEditGraph(shell)
  /\ ~shell.saveInFlightRef
  /\ saves = {}
  /\ ~shell.hasSyncConflict

\* ghost after a step of the given kind ("edit", "fire", "error", "reset",
\* "logout", "loaded" or "other").  Since the content last changed, issued counts the saveMindmap
\* calls (2 stands for two or more) and failed tells whether one of them
\* failed other than by a conflict.  A burst is a series of edits, each made
\* while the timer of the previous one is pending, that began when nothing
\* was under way: burstEdits counts its edits and burstSaves the calls issued
\* since it began (2 stands for two or more).  signedOut holds from the call
\* of handleLogout until a load completes.
GhostAfter(kind) ==
  LET changed == Content(document', shell') # Content(document, shell)
      base == IF changed THEN [ghost EXCEPT !.issued = 0, !.failed = FALSE] ELSE ghost
      counted == [base EXCEPT !.issued = IF kind = "fire" THEN Min(2, @ + 1) ELSE @,
                              !.failed = @ \/ kind = "error"]
  IN CASE kind = "edit" ->
            [counted EXCEPT !.burstEdits = IF ~Quiet THEN 0
                                           ELSE IF shell.autosaveTimerRef # {} /\ @ >= 1 THEN 2
                                           ELSE 1,
                            !.burstSaves = 0]
       [] kind = "fire" ->
            [counted EXCEPT !.burstSaves = IF ghost.burstEdits >= 1 THEN Min(2, @ + 1) ELSE @]
       [] kind = "reset" ->
            [counted EXCEPT !.burstEdits = 0, !.burstSaves = 0]
       [] kind = "logout" ->
            [counted EXCEPT !.burstEdits = 0, !.burstSaves = 0, !.signedOut = TRUE]
       [] kind = "loaded" ->
            [counted EXCEPT !.burstEdits = 0, !.burstSaves = 0, !.signedOut = FALSE]
       [] OTHER -> counted

\* The requests after another client has written into the sheet: those for
\* that sheet are raced (the token stored for it is no longer the one they
\* were issued with).
Raced(requests, title) ==
  {[r EXCEPT !.raced = @ \/ r.sheetTitle = title] : r \in requests}

SyncOp(name, path) == [op |-> name, a |-> Null, b |-> Null, path |-> path]

\* What lastOp is after a step that is no call of the editor and settles no save.
Background == SyncOp("background", "ok")

\* ------------------------------------------------------- editing in the shell
\* An editor operation called from the shell (keyboard, toolbar, canvas), which
\* allows it only while canEditGraph; the render that follows runs the effects.
\* A call that returns the state it was given causes no render and is left out.
ShellEdit(operation) ==
  /\ canEditGraph(shell)
  /\ operation
  /\ lastOp'.path = "ok"
  /\ shell' = Rendered(shell, shell, document', TRUE, FALSE)
  /\ UNCHANGED <<saves, loads, store, env>>
  /\ ghost' = GhostAfter("edit")

\* The node the toolbar and the keyboard act on.
SelectedOrRoot == IF HasNode(document.nodes, selectedNodeId) THEN selectedNodeId ELSE RootId

\* ------------------------------------------------------------- loading
\* A call of loadMindmap on its way, from the moment its first fetch has read
\* the rows of the sheet.
NewLoad(title, kind) ==
  [id |-> env.loads + 1, sheetTitle |-> title, kind |-> kind, rows |-> store.rows[title]]

IssueLoad(after, title, kind, ghostKind) ==
  /\ shell' = Rendered(shell, after, document, FALSE, FALSE)
  /\ loads' = loads \cup {NewLoad(title, kind)}
  /\ env' = [env EXCEPT !.loads = @ + 1]
  /\ lastOp' = Background
  /\ prevDoc' = document
  /\ UNCHANGED <<editorVars, saves, store>>
  /\ ghost' = GhostAfter(ghostKind)

\* Sign in: authorize, list the stores and sheets, select the first of each
\* unless one is selected already, load the selected sheet.
handleConnect ==
  /\ shell.authState # "authorized"
  /\ LET title == IF shell.selectedSheetTitle \in Sheets THEN shell.selectedSheetTitle ELSE "S1"
     IN IssueLoad(
                  [shell EXCEPT !.authState = "authorized",
                                !.selectedSpreadsheetId = SpreadsheetId,
                                !.selectedSheetTitle = title,
                                !.syncStatus = "authorizing..."],
                  title, "connect", "reset")

handleSheetChange(sheetTitle) ==
  /\ shell.authState = "authorized"
  /\ shell.selectedSpreadsheetId # ""
  /\ IssueLoad(
               [shell EXCEPT !.selectedSheetTitle = sheetTitle, !.syncStatus = "loading graph..."],
               sheetTitle, "sheet", "reset")

handleReloadRemote ==
  /\ shell.authState = "authorized"
  /\ shell.selectedSpreadsheetId # ""
  /\ shell.selectedSheetTitle # ""
  /\ IssueLoad(
               [shell EXCEPT !.syncStatus = "reloading remote graph..."],
               shell.selectedSheetTitle, "reload", "other")

\* Sign out (the button is rendered while authorized): the pipeline is
\* invalidated, the token is dropped, the selection is cleared.  The session
\* had a token or not; revoking it takes no step of its own here.
handleLogout ==
  /\ shell.authState = "authorized"
  /\ shell' = Rendered(shell,
                       [invalidateAutosavePipeline(shell) EXCEPT
                          !.authState = "unauthorized",
                          !.selectedSpreadsheetId = "",
                          !.selectedSheetTitle = "",
                          !.graphLoaded = FALSE,
                          !.syncStatus = "signed out",
                          !.editingNodeId = Null],
                       document, FALSE, FALSE)
  /\ lastOp' = SyncOp("handleLogout", "ok")
  /\ prevDoc' = document
  /\ UNCHANGED <<editorVars, saves, loads, store, env>>
  /\ ghost' = GhostAfter("logout")

\* Sign out with a token to revoke: handleLogout invalidates the pipeline and
\* waits for the revocation, the state of the component being what it was.
handleLogoutInvoked ==
  /\ shell.authState = "authorized"
  /\ ~shell.logoutPending
  /\ shell' = Rendered(shell,
                       [invalidateAutosavePipeline(shell) EXCEPT
                          !.syncStatus = "signing out...",
                          !.logoutPending = TRUE],
                       document, FALSE, FALSE)
  /\ lastOp' = SyncOp("handleLogout", "invoked")
  /\ prevDoc' = document
  /\ UNCHANGED <<editorVars, saves, loads, store, env>>
  /\ ghost' = GhostAfter("logout")

\* The revocation has been answered: handleLogout goes on after its await.
logoutResolved ==
  /\ shell.logoutPending
  /\ shell' = Rendered(shell,
                       [shell EXCEPT
                          !.authState = "unauthorized",
                          !.selectedSpreadsheetId = "",
                          !.selectedSheetTitle = "",
                          !.graphLoaded = FALSE,
                          !.syncStatus = "signed out",
                          !.editingNodeId = Null,
                          !.logoutPending = FALSE],
                       document, FALSE, FALSE)
  /\ lastOp' = SyncOp("handleLogout", "ok")
  /\ prevDoc' = document
  /\ UNCHANGED <<editorVars, saves, loads, store, env, ghost>>

LoadedStatus(kind) ==
  CASE kind = "connect" -> "authorized"
    [] kind = "sheet" -> "graph loaded"
    [] kind = "reload" -> "remote graph loaded"
    [] kind = "stores" -> "stores loaded"

\* loadMindmap: the Meta sheet is read (metaRead is FALSE when that fetch
\* fails, and the map is then empty), and the caller goes on with the result.
LoadComplete(l, metaRead) ==
  /\ l \in loads
  /\ LET metaMap == IF metaRead THEN store.meta ELSE EmptyMeta
         stored == StoredToken(metaMap, l.sheetTitle)
         updatedAtIso == IF stored # NoToken THEN stored ELSE LoadTime
         loaded == loadedDocument(l.rows, l.sheetTitle)
         after == [invalidateAutosavePipeline(shell) EXCEPT
                     !.hasSyncConflict = FALSE,
                     !.lastSavedSignatureRef = createDocumentSignature(loaded),
                     !.remoteUpdatedAtRef = updatedAtIso,
                     !.graphLoaded = TRUE,
                     !.syncStatus = LoadedStatus(l.kind)]
     IN /\ importDocument(loaded)
        /\ shell' = Rendered(shell, after, document', TRUE, FALSE)
        /\ env' = [env EXCEPT !.faults = IF metaRead THEN @ ELSE @ + 1]
  /\ loads' = loads \ {l}
  /\ ghost' = GhostAfter("loaded")
  /\ UNCHANGED <<saves, store>>

\* The fetch of the rows fails: runTask reports the error.
LoadFail(l) ==
  /\ l \in loads
  /\ shell' = [shell EXCEPT !.syncStatus = "error"]
  /\ loads' = loads \ {l}
  /\ env' = [env EXCEPT !.faults = @ + 1]
  /\ lastOp' = Background
  /\ prevDoc' = document
  /\ UNCHANGED <<editorVars, saves, store, ghost>>

\* ------------------------------------------------ refreshing the store list
\* Refresh Stores: the stores and then the graph sheets of the selected
\* store are listed.
handleRefreshStores ==
  /\ shell.authState = "authorized"
  /\ IssueLoad([shell EXCEPT !.syncStatus = "loading stores..."],
               IF shell.selectedSheetTitle \in Sheets THEN shell.selectedSheetTitle ELSE "S1",
               "listing", "other")

\* The listings have arrived.  listed: the selected store and its sheets are
\* still there, and refreshStores goes on to load the selected sheet; if not
\* (the store was removed by its owner elsewhere) no store is listed and the
\* selection is cleared.
RefreshComplete(l, listed) ==
  /\ l \in loads
  /\ l.kind = "listing"
  /\ IF listed
       THEN /\ shell' = Rendered(shell,
                                 [shell EXCEPT !.selectedSpreadsheetId = SpreadsheetId,
                                               !.selectedSheetTitle = l.sheetTitle],
                                 document, FALSE, FALSE)
            /\ loads' = (loads \ {l}) \cup {[l EXCEPT !.kind = "stores",
                                                       !.rows = store.rows[l.sheetTitle]]}
            /\ env' = env
       ELSE /\ shell' = Rendered(shell,
                                 [shell EXCEPT !.selectedSpreadsheetId = "",
                                               !.selectedSheetTitle = "",
                                               !.graphLoaded = FALSE,
                                               !.syncStatus = "stores loaded"],
                                 document, FALSE, FALSE)
            /\ loads' = loads \ {l}
            /\ env' = [env EXCEPT !.faults = @ + 1]
  /\ lastOp' = Background
  /\ prevDoc' = document
  /\ UNCHANGED <<editorVars, saves, store>>
  /\ ghost' = GhostAfter("reset")

\* ------------------------------------------------ renaming on the canvas
\* A double click on a node of the canvas: the canvas starts the inline
\* rename only while it is editable.
startRename(nodeId) ==
  /\ shell.authState = "authorized"
  /\ HasNode(document.nodes, nodeId)
  /\ shell.editingNodeId = Null
  /\ canEditGraph(shell)
  /\ selectNode(nodeId)
  /\ shell' = [shell EXCEPT !.editingNodeId = nodeId]
  /\ UNCHANGED <<saves, loads, store, env, ghost>>

\* Enter in the input of the inline rename, or the input losing the focus:
\* the canvas hands the trimmed title, unless it is empty, to renameNode.
finishRename(editingTitle) ==
  /\ shell.editingNodeId # Null
  /\ IF Trim(editingTitle) = ""
       THEN /\ lastOp' = Background
            /\ prevDoc' = document
            /\ shell' = [shell EXCEPT !.editingNodeId = Null]
            /\ UNCHANGED <<editorVars, ghost>>
       ELSE /\ renameNode(shell.editingNodeId, Trim(editingTitle))
            /\ shell' = Rendered(shell, [shell EXCEPT !.editingNodeId = Null], document', TRUE, FALSE)
            /\ ghost' = GhostAfter("edit")
  /\ UNCHANGED <<saves, loads, store, env>>

\* A click on a control outside the input of the inline rename takes the
\* focus from that input first, which ends the rename: the handler of the
\* click runs with no rename under way.  (The keyboard shortcuts ignore keys
\* typed into an input.)
Clicked(handler) ==
  /\ shell.editingNodeId = Null
  /\ handler

\* ------------------------------------------------- the adapter on its own
\* Documents handed to saveMindmap: with a root node, ids and titles that are
\* not empty, edges whose fields are not empty; the nodes in any sequence,
\* with orders that need not follow it.
RoundTripDocs ==
  {createEmptyMindmap(SpreadsheetId, "S1"),
   DocWithEdge,
   [id |-> SpreadsheetId, title |-> "S1",
    nodes |-> <<[id |-> "n1", title |-> "B", parentId |-> RootId, order |-> 1],
                [id |-> RootId, title |-> "Main Topic", parentId |-> Null, order |-> 0],
                [id |-> "n2", title |-> "A", parentId |-> RootId, order |-> 0]>>,
    edges |-> << >>],
   [id |-> SpreadsheetId, title |-> "S2",
    nodes |-> <<[id |-> RootId, title |-> "Untitled", parentId |-> Null, order |-> 0],
                [id |-> "n1", title |-> "New Node", parentId |-> "n2", order |-> 10],
                [id |-> "n2", title |-> "New Node", parentId |-> RootId, order |-> 0]>>,
    edges |-> <<[id |-> "e2", fromNodeId |-> "n2", toNodeId |-> "gone"], RemoteEdge>>]}

AdapterFrame == UNCHANGED <<editorVars, shell, saves, loads, env, ghost>>

\* A call of saveMindmap that no other request runs into.  metaRead is FALSE
\* when the read of the Meta sheet fails (the map is then empty); expected is
\* the token the caller passes.  prevDoc keeps the document handed in, lastOp
\* the sheet and the token returned.
saveMindmap(doc, sheetTitle, expected, metaRead) ==
  LET metaMap == IF metaRead THEN store.meta ELSE EmptyMeta
      remoteUpdatedAtIso == StoredToken(metaMap, sheetTitle)
      nowIso == FreshTime
  IN /\ prevDoc' = doc
     /\ IF expected # NoToken /\ remoteUpdatedAtIso # NoToken /\ expected # remoteUpdatedAtIso
          THEN /\ lastOp' = [op |-> "saveMindmap", a |-> sheetTitle, b |-> NoToken, path |-> "conflict"]
               /\ UNCHANGED store
          ELSE /\ lastOp' = [op |-> "saveMindmap", a |-> sheetTitle, b |-> nowIso, path |-> "ok"]
               /\ store' = [rows |-> [store.rows EXCEPT ![sheetTitle] =
                                        SavedRows(@, [doc EXCEPT !.title = sheetTitle])],
                            meta |-> SavedMeta(metaMap, sheetTitle, nowIso)]
     /\ AdapterFrame

\* The token loadMindmap returns.
LoadedToken(metaMap, title) ==
  IF StoredToken(metaMap, title) # NoToken THEN StoredToken(metaMap, title) ELSE LoadTime

\* A call of loadMindmap.  prevDoc keeps the document returned, lastOp the
\* sheet and the token returned.
loadMindmap(sheetTitle, metaRead) ==
  /\ prevDoc' = loadedDocument(store.rows[sheetTitle], sheetTitle)
  /\ lastOp' = [op |-> "loadMindmap", a |-> sheetTitle,
                b |-> LoadedToken(IF metaRead THEN store.meta ELSE EmptyMeta, sheetTitle),
                path |-> "ok"]
  /\ UNCHANGED store
  /\ AdapterFrame

\* ---------------------------------------------------------- the menu bar
\* The menus of the top bar are details elements: openMenus holds the keys
\* of those that carry the open attribute.  The browser toggles the attribute
\* and queues a task that fires the toggle event (toggleTasks: the elements
\* with such a task queued, one per element at most).
Menus == {"file", "edit"}
FileModals == {"open", "newStore", "export"}

MenuOp(name, menuKey, path) == [op |-> name, a |-> menuKey, b |-> Null, path |-> path]

MenuFrame ==
  /\ prevDoc' = document
  /\ UNCHANGED <<editorVars, saves, loads, store, env, ghost>>

\* A click on the summary of a menu.
SummaryClick(menuKey) ==
  /\ shell' = [shell EXCEPT
                 !.openMenus = IF menuKey \in @ THEN @ \ {menuKey} ELSE @ \cup {menuKey},
                 !.toggleTasks = @ \cup {menuKey}]
  /\ lastOp' = MenuOp("summaryClick", menuKey, "ok")
  /\ MenuFrame

handleMenuToggle_keepOthers(menuKey) ==
  /\ menuKey \in shell.toggleTasks
  /\ shell' = [shell EXCEPT !.toggleTasks = @ \ {menuKey}]
  /\ lastOp' = MenuOp("handleMenuToggle", menuKey,
                      IF menuKey \in shell.openMenus /\ shell.openMenus # {menuKey}
                        THEN "closedOthers" ELSE "ok")
  /\ MenuFrame

\* The toggle event of a menu: when that menu is open, the open attribute of
\* every other menu is removed (which queues their toggle events).
handleMenuToggle(menuKey) ==
  /\ menuKey \in shell.toggleTasks
  /\ shell' = IF menuKey \notin shell.openMenus
                THEN [shell EXCEPT !.toggleTasks = @ \ {menuKey}]
                ELSE [shell EXCEPT !.openMenus = {menuKey},
                                   !.toggleTasks = (@ \ {menuKey}) \cup (shell.openMenus \ {menuKey})]
  /\ lastOp' = MenuOp("handleMenuToggle", menuKey,
                      IF menuKey \in shell.openMenus /\ shell.openMenus # {menuKey}
                        THEN "closedOthers" ELSE "ok")
  /\ MenuFrame

closeAllMenus(s) == [s EXCEPT !.openMenus = {}, !.toggleTasks = @ \cup s.openMenus]

\* A pointer goes down outside the menu bar.
handleDocumentPointerDown ==
  /\ shell' = closeAllMenus(shell)
  /\ lastOp' = MenuOp("handleDocumentPointerDown", Null, "ok")
  /\ MenuFrame

\* Escape is pressed.
handleEscape ==
  /\ shell' = closeAllMenus(shell)
  /\ lastOp' = MenuOp("handleEscape", Null, "ok")
  /\ MenuFrame

\* An entry of the File menu: Open... and New Store... are enabled while
\* authorized, Export... while canEditGraph.
openFileModal(modal) ==
  /\ "file" \in shell.openMenus
  /\ IF modal = "export" THEN canEditGraph(shell) ELSE shell.authState = "authorized"
  /\ shell' = [closeAllMenus(shell) EXCEPT !.activeFileModal = modal]
  /\ lastOp' = MenuOp("openFileModal", modal, "ok")
  /\ MenuFrame

\* The Close button of a dialog.
closeFileModal ==
  /\ shell.activeFileModal # Null
  /\ shell' = [shell EXCEPT !.activeFileModal = Null]
  /\ lastOp' = MenuOp("closeFileModal", Null, "ok")
  /\ MenuFrame

\* An entry of the Edit menu.
EditMenuEntry(operation) ==
  /\ "edit" \in shell.openMenus
  /\ ShellEdit(operation)

\* -------------------------------------------------------------- saving
\* The debounce timer fires: the callback marks the save in flight and calls
\* saveMindmap with what it closed over and the baseline token as it is now.
\* saveMindmap reads the Meta sheet (metaRead is FALSE when that fetch fails,
\* and the map is then empty), compares the tokens, and either throws the
\* conflict or takes nowIso.
\* raced records for the claims that the sheet is the one the baseline was
\* taken from and holds another token than the baseline.
TimerFire(t, metaRead) ==
  /\ t \in shell.autosaveTimerRef
  /\ LET metaMap == IF metaRead THEN store.meta ELSE EmptyMeta
         expected == shell.remoteUpdatedAtRef
         remoteUpdatedAtIso == StoredToken(metaMap, t.sheetTitle)
         conflict == expected # NoToken /\ remoteUpdatedAtIso # NoToken /\ expected # remoteUpdatedAtIso
     IN /\ saves' = saves \cup {[requestVersion |-> t.requestVersion,
                                  sheetTitle |-> t.sheetTitle,
                                  document |-> t.document,
                                  phase |-> IF conflict THEN "conflict" ELSE "checked",
                                  metaMap |-> IF conflict THEN EmptyMeta ELSE metaMap,
                                  raced |-> /\ shell.lastSavedSignatureRef.title = t.sheetTitle
                                            /\ expected # NoToken
                                            /\ StoredToken(store.meta, t.sheetTitle) # NoToken
                                            /\ StoredToken(store.meta, t.sheetTitle) # expected]}
        /\ env' = [env EXCEPT !.saves = @ + 1, !.faults = IF metaRead THEN @ ELSE @ + 1]
  /\ shell' = [shell EXCEPT !.autosaveTimerRef = {}, !.saveInFlightRef = TRUE]
  /\ lastOp' = Background
  /\ prevDoc' = document
  /\ UNCHANGED <<editorVars, loads, store>>
  /\ ghost' = GhostAfter("fire")

\* The continuation of the timer callback once saveMindmap has settled with
\* result "success", "conflict" or "error": the try or catch branch, then the
\* finally block, then the render.
SettleStale(s, r) == r.requestVersion # s.autosaveVersionRef

\* A success branch that takes the signature of the document as it is now.
SettleHandled_currentSignature(s, r, result, updatedAtIso) ==
  IF SettleStale(s, r) THEN s
  ELSE CASE result = "success" ->
              [s EXCEPT !.lastSavedSignatureRef = createDocumentSignature(documentForSave(document, s)),
                        !.remoteUpdatedAtRef = IF updatedAtIso # NoToken THEN updatedAtIso ELSE @,
                        !.hasSyncConflict = FALSE,
                        !.syncStatus = "auto-saved"]
         [] result = "conflict" ->
              [s EXCEPT !.hasSyncConflict = TRUE,
                        !.saveQueuedRef = FALSE,
                        !.syncStatus = "conflict detected"]
         [] OTHER -> [s EXCEPT !.syncStatus = "error"]

\* The refs and the state the try or catch branch leaves.
SettleHandled(s, r, result, updatedAtIso) ==
  IF SettleStale(s, r) THEN s
  ELSE CASE result = "success" ->
              [s EXCEPT !.lastSavedSignatureRef = createDocumentSignature(r.document),
                        !.remoteUpdatedAtRef = IF updatedAtIso # NoToken THEN updatedAtIso ELSE @,
                        !.hasSyncConflict = FALSE,
                        !.syncStatus = "auto-saved"]
         [] result = "conflict" ->
              [s EXCEPT !.hasSyncConflict = TRUE,
                        !.saveQueuedRef = FALSE,
                        !.syncStatus = "conflict detected"]
         [] OTHER -> [s EXCEPT !.syncStatus = "error"]

\* The refs and the state the finally block leaves: what the component
\* renders before the effects run again.
SettleFinished(s, r, result, updatedAtIso) ==
  [SettleHandled(s, r, result, updatedAtIso) EXCEPT !.saveInFlightRef = FALSE,
                                                    !.saveQueuedRef = FALSE,
                                                    !.isAutoSaving = FALSE]

SettleTriggers_retry(s, r, result, updatedAtIso) ==
  \/ SettleHandled(s, r, result, updatedAtIso).saveQueuedRef
  \/ result = "error"

\* Whether the finally block calls setSaveTrigger.
SettleTriggers(s, r, result, updatedAtIso) ==
  /\ SettleHandled(s, r, result, updatedAtIso).saveQueuedRef
  /\ ~(~SettleStale(s, r) /\ result = "conflict")

Settle_rollback(r, result, updatedAtIso) ==
  /\ shell' = Rendered(shell, SettleFinished(shell, r, result, updatedAtIso), document, FALSE,
                       SettleTriggers(shell, r, result, updatedAtIso))
  /\ saves' = saves \ {r}
  /\ lastOp' = [op |-> "saveSettle",
                a |-> IF SettleStale(shell, r) THEN "stale" ELSE "current",
                b |-> IF r.raced THEN "raced" ELSE "clean",
                path |-> result]
  /\ prevDoc' = document
  /\ historyIndex' = IF result = "success" THEN historyIndex ELSE Max(0, historyIndex - 1)
  /\ UNCHANGED <<document, selectedNodeId, collapsedNodeIds, history, nextId, loads>>
  /\ ghost' = GhostAfter(IF result = "error" THEN "error" ELSE "other")

Settle(r, result, updatedAtIso) ==
  /\ shell' = Rendered(shell, SettleFinished(shell, r, result, updatedAtIso), document, FALSE,
                       SettleTriggers(shell, r, result, updatedAtIso))
  /\ saves' = saves \ {r}
  /\ lastOp' = [op |-> "saveSettle",
                a |-> IF SettleStale(shell, r) THEN "stale" ELSE "current",
                b |-> IF r.raced THEN "raced" ELSE "clean",
                path |-> result]
  /\ prevDoc' = document
  /\ UNCHANGED <<editorVars, loads>>
  /\ ghost' = GhostAfter(IF result = "error" THEN "error" ELSE "other")

ServerStep ==
  /\ lastOp' = Background
  /\ prevDoc' = document
  /\ UNCHANGED <<editorVars, shell, loads, ghost>>

\* saveMindmap has thrown the conflict.
SaveConflict(r) ==
  /\ r.phase = "conflict"
  /\ Settle(r, "conflict", NoToken)
  /\ UNCHANGED <<env, store>>

\* saveMindmap writes the rows of the sheet.
SaveWriteRows(r) ==
  /\ r.phase = "checked"
  /\ store' = [store EXCEPT !.rows[r.sheetTitle] =
                 Overlay(@, buildGraphRows(ensureRootNode(r.document)))]
  /\ saves' = (saves \ {r}) \cup {[r EXCEPT !.phase = "rows"]}
  /\ ServerStep
  /\ UNCHANGED env

\* saveMindmap rewrites the Meta sheet from the map it read, with the tokens
\* of the store and of the sheet set to nowIso, clears the rows below the ones
\* it wrote, and returns nowIso.  Nothing can tell when nowIso was read
\* between the check and this write: it is read here.
SaveComplete(r) ==
  /\ r.phase = "rows"
  /\ LET nowIso == FreshTime
     IN /\ store' = [rows |-> [store.rows EXCEPT ![r.sheetTitle] =
                                 ClearedBelow(@, Len(buildGraphRows(ensureRootNode(r.document))))],
                     meta |-> SavedMeta(r.metaMap, r.sheetTitle, nowIso)]
        /\ Settle(r, "success", nowIso)
  /\ UNCHANGED env

\* A fetch of saveMindmap other than the read of the Meta sheet fails.
SaveFail(r) ==
  /\ r.phase \in {"checked", "rows"}
  /\ env' = [env EXCEPT !.faults = @ + 1]
  /\ Settle(r, "error", NoToken)
  /\ UNCHANGED store

\* Another client saves its graph into the sheet.
RemoteWrite(title) ==
  /\ LET now == FreshTime
         written == [store.meta EXCEPT !.updatedAtIso = now, !.perTitle[title] = now]
     IN /\ store' = [rows |-> [store.rows EXCEPT ![title] = RemoteRows(title)], meta |-> written]
        /\ saves' = Raced(saves, title)
  /\ env' = [env EXCEPT !.faults = @ + 1]
  /\ lastOp' = Background
  /\ prevDoc' = document
  /\ UNCHANGED <<editorVars, shell, loads, ghost>>


\* ------------------------------------------------ the depth of the selection
\* The loop of selectedNodeDepth from the given cursor on.  Each pass with a
\* cursor that is found visits a node; once the loop has made more passes
\* than there are nodes it is at a cursor it was at before and goes on for
\* ever: the walk then does not return.
Returned(depth) == [returns |-> TRUE, depth |-> depth]
Endless == [returns |-> FALSE, depth |-> 0]

RECURSIVE DepthWalk(_, _, _)
DepthWalk(nodes, cursor, depth) ==
  IF cursor = Null THEN Returned(depth)
  ELSE IF depth > Len(nodes) THEN Endless
  ELSE DepthWalk(nodes,
                 IF HasNode(nodes, cursor) THEN FindNode(nodes, cursor).parentId ELSE Null,
                 depth + 1)

selectedNodeDepth ==
  IF ~HasNode(document.nodes, selectedNodeId) THEN Returned(0)
  ELSE IF FindNode(document.nodes, selectedNodeId).parentId = Null THEN Returned(0)
  ELSE DepthWalk(document.nodes, FindNode(document.nodes, selectedNodeId).parentId, 0)

\* ------------------------------------------------------- specifications
OnlyEditor == UNCHANGED syncVars

TreeNext ==
  \/ \E p \in ArgIds : addChildNode(p)
  \/ \E n \in ArgIds : addSiblingNode(n)
  \/ \E n \in ArgIds, t \in TitleInputs : renameNode(n, t)
  \/ \E n \in ArgIds, p \in ArgIds, i \in IndexInputs : moveNode(n, p, i)
  \/ \E n \in ArgIds : deleteNode(n)
  \/ undo
  \/ redo

vars == <<document, selectedNodeId, collapsedNodeIds, history, historyIndex, nextId, lastOp, prevDoc,
          shell, saves, loads, store, env, ghost>>

\* The editor and the shell as they are once the component has mounted.
Init == EditorInit /\ SyncInit

\* A step of the editor that stays within the bounds of a run.
EditorWithin(maxHistory, maxIds) ==
  /\ Len(history') <= maxHistory
  /\ nextId' <= maxIds

SpecTree == Init /\ [][TreeNext /\ EditorWithin(MaxHistory, MaxIds) /\ OnlyEditor]_vars

EditorStep ==
  \/ TreeNext
  \/ \E d \in ImportDocs : importDocument(d)
  \/ \E n \in ArgIds \cup {Null} : selectNode(n)
  \/ \E n \in ArgIds : toggleNodeCollapsed(n)

\* The whole hook, with a shorter history than SpecTree allows.
EditorNext == EditorStep /\ EditorWithin(MaxEditorHistory, MaxIds) /\ OnlyEditor

SpecEditor == Init /\ [][EditorNext]_vars

\* The operations that change the collapsed-set or take nodes away, with a
\* longer history than SpecEditor allows.
CollapseStep ==
  \/ \E p \in ArgIds : addChildNode(p)
  \/ \E n \in ArgIds : deleteNode(n)
  \/ \E n \in ArgIds : toggleNodeCollapsed(n)
  \/ \E d \in ImportDocs : importDocument(d)
  \/ undo
  \/ redo

CollapseNext == CollapseStep /\ EditorWithin(MaxCollapseHistory, MaxIds) /\ OnlyEditor

SpecCollapse == Init /\ [][CollapseNext]_vars

\* Adding and deleting only, with more ids and a longer history.
AppendStep ==
  \/ \E p \in ArgIds : addChildNode(p)
  \/ \E n \in ArgIds : addSiblingNode(n)
  \/ \E n \in ArgIds : deleteNode(n)

AppendNext == AppendStep /\ EditorWithin(MaxAppendHistory, MaxAppendIds) /\ OnlyEditor

SpecAppend == Init /\ [][AppendNext]_vars

\* Rows a graph sheet can hold when loadMindmap reads it: the rows this
\* program wrote, the rows of another client, no rows at all, and rows typed
\* into the sheet by hand (a node row without a parent, next to a root row or
\* alone).
StrayRow == nodeRow([RemoteNode EXCEPT !.parentId = Null])
SheetRowInputs ==
  {buildGraphRows(createEmptyMindmap(SpreadsheetId, "S1")),
   RemoteRows("S1"),
   << >>,
   <<StrayRow>>,
   buildGraphRows(createEmptyMindmap(SpreadsheetId, "S1")) \o <<StrayRow>>}

\* The documents loadMindmap returns for those rows.
LoadableDocs == {loadedDocument(rows, "S1") : rows \in SheetRowInputs}

\* The hook, importing what loadMindmap returns.
LoadedStep ==
  \/ TreeNext
  \/ \E d \in LoadableDocs : importDocument(d)

LoadedNext == LoadedStep /\ EditorWithin(MaxEditorHistory, MaxIds) /\ OnlyEditor

SpecLoaded == Init /\ [][LoadedNext]_vars

SyncStep ==
  \/ handleConnect
  \/ \E t \in Sheets : handleSheetChange(t)
  \/ handleReloadRemote
  \/ \E l \in loads, metaRead \in BOOLEAN : LoadComplete(l, metaRead)
  \/ \E l \in loads : LoadFail(l)
  \/ nextId < MaxSyncIds /\ ShellEdit(addChildNode(SelectedOrRoot))
  \/ ShellEdit(renameNode(SelectedOrRoot, FindNode(document.nodes, SelectedOrRoot).title))
  \/ ShellEdit(undo)
  \/ \E t \in shell.autosaveTimerRef, metaRead \in BOOLEAN : TimerFire(t, metaRead)
  \/ \E r \in saves : SaveConflict(r)
  \/ \E r \in saves : SaveWriteRows(r)
  \/ \E r \in saves : SaveComplete(r)
  \/ \E r \in saves : SaveFail(r)
  \/ \E t \in Sheets : RemoteWrite(t)

\* A step that stays within the bounds of a run.
Within(maxSaves, maxFaults) ==
  /\ Len(history') <= MaxSyncHistory
  /\ env'.saves <= maxSaves
  /\ env'.loads <= MaxLoads
  /\ env'.faults <= maxFaults

\* The shell with its editor and the store, within the bounds of a run.
SyncNext == SyncStep /\ Within(MaxSaves, MaxFaults)

SpecSync == Init /\ [][SyncNext]_vars

\* Sessions: signing in and out, switching sheets and reloading, around
\* edits and saves that succeed or run into the write of another client.
SessionStep ==
  \/ handleConnect
  \/ handleLogout
  \/ \E t \in Sheets : handleSheetChange(t)
  \/ handleReloadRemote
  \/ \E l \in loads : LoadComplete(l, TRUE)
  \/ nextId < MaxSyncIds /\ ShellEdit(addChildNode(SelectedOrRoot))
  \/ \E t \in shell.autosaveTimerRef : TimerFire(t, TRUE)
  \/ \E r \in saves : SaveConflict(r)
  \/ \E r \in saves : SaveWriteRows(r)
  \/ \E r \in saves : SaveComplete(r)
  \/ \E t \in Sheets : RemoteWrite(t)

SessionNext == SessionStep /\ Within(MaxSessionSaves, MaxFaults)

SpecSession == Init /\ [][SessionNext]_vars

\* Locking and unlocking: signing in and out, refreshing the stores, every
\* structural operation the toolbar, the keyboard and the canvas offer, and
\* saves that succeed.
ParentOf(nodeId) == FindNode(document.nodes, nodeId).parentId
LockStep ==
  \/ Clicked(handleConnect)
  \/ Clicked(handleLogout)
  \/ Clicked(handleRefreshStores)
  \/ \E l \in loads, listed \in BOOLEAN : RefreshComplete(l, listed)
  \/ \E l \in {x \in loads : x.kind # "listing"} : LoadComplete(l, TRUE)
  \/ \E n \in NodeIds(document.nodes) : startRename(n)
  \/ \E t \in TitleInputs : finishRename(t)
  \/ Clicked(ShellEdit(addChildNode(SelectedOrRoot)))
  \/ Clicked(ShellEdit(addSiblingNode(SelectedOrRoot)))
  \/ Clicked(ShellEdit(deleteNode(SelectedOrRoot)))
  \/ \E n \in NodeIds(document.nodes) \ {RootId}, i \in IndexInputs :
        Clicked(ShellEdit(moveNode(n, ParentOf(n), i)))
  \/ Clicked(ShellEdit(undo))
  \/ Clicked(ShellEdit(redo))
  \/ \E t \in shell.autosaveTimerRef : TimerFire(t, TRUE)
  \/ \E r \in saves : SaveWriteRows(r)
  \/ \E r \in saves : SaveComplete(r)

LockNext ==
  /\ LockStep
  /\ Within(MaxLockSaves, MaxFaults)
  /\ nextId' <= MaxIds

SpecLock == Init /\ [][LockNext]_vars

\* The menu bar with the entries of its menus, signed in or not.
MenuStep ==
  \/ \E m \in Menus : SummaryClick(m)
  \/ \E m \in Menus : handleMenuToggle(m)
  \/ handleDocumentPointerDown
  \/ handleEscape
  \/ \E modal \in FileModals : openFileModal(modal)
  \/ closeFileModal
  \/ handleConnect
  \/ \E l \in loads : LoadComplete(l, TRUE)
  \/ nextId < MaxSyncIds /\ EditMenuEntry(addChildNode(SelectedOrRoot))
  \/ EditMenuEntry(deleteNode(SelectedOrRoot))
  \/ EditMenuEntry(undo)
  \/ EditMenuEntry(redo)

MenuNext == MenuStep /\ Within(0, 0)

SpecMenu == Init /\ [][MenuNext]_vars

\* Signing out with a token to revoke, around edits and saves.
LogoutStep ==
  \/ handleConnect
  \/ handleLogoutInvoked
  \/ logoutResolved
  \/ handleReloadRemote
  \/ \E l \in loads : LoadComplete(l, TRUE)
  \/ nextId < MaxSyncIds /\ ShellEdit(addChildNode(SelectedOrRoot))
  \/ ShellEdit(undo)
  \/ \E t \in shell.autosaveTimerRef, metaRead \in BOOLEAN : TimerFire(t, metaRead)
  \/ \E r \in saves : SaveWriteRows(r)
  \/ \E r \in saves : SaveComplete(r)
  \/ \E r \in saves : SaveFail(r)

LogoutNext == LogoutStep /\ Within(MaxSessionSaves, MaxFaults)

SpecLogout == Init /\ [][LogoutNext]_vars

\* Rows typed into a sheet by hand whose parent cells lead round: a root row
\* that names itself as its parent, and two rows that name each other.
SelfParentRows == <<nodeRow([id |-> RootId, title |-> "S1", parentId |-> RootId, order |-> 0])>>
CycleRows ==
  buildGraphRows(createEmptyMindmap(SpreadsheetId, "S1"))
    \o <<nodeRow([id |-> "n1", title |-> "A", parentId |-> "n2", order |-> 0]),
         nodeRow([id |-> "n2", title |-> "B", parentId |-> "n1", order |-> 0])>>

\* The documents loadMindmap returns for the rows of SheetRowInputs and those.
DepthDocs == {loadedDocument(rows, "S1") : rows \in SheetRowInputs \cup {SelfParentRows, CycleRows}}

\* The hook importing what loadMindmap returns, with the selection moving
\* and nodes being added.
DepthStep ==
  \/ \E d \in DepthDocs : importDocument(d)
  \/ \E n \in ArgIds : selectNode(n)
  \/ \E p \in ArgIds : addChildNode(p)
  \/ undo
  \/ redo

DepthNext == DepthStep /\ EditorWithin(MaxEditorHistory, MaxIds) /\ OnlyEditor

SpecDepth == Init /\ [][DepthNext]_vars

\* Calls of the adapter, one after the other.
RoundTripStep ==
  \/ \E doc \in RoundTripDocs, t \in Sheets, metaRead \in BOOLEAN :
        \E expected \in {NoToken, StoredToken(store.meta, t), LoadTime} :
          saveMindmap(doc, t, expected, metaRead)
  \/ \E t \in Sheets, metaRead \in BOOLEAN : loadMindmap(t, metaRead)

SpecRoundTrip == Init /\ [][RoundTripStep]_vars

\* One client on one sheet, every fetch succeeding.
PipelineStep ==
  \/ handleConnect
  \/ handleReloadRemote
  \/ \E l \in loads : LoadComplete(l, TRUE)
  \/ nextId < MaxSyncIds /\ ShellEdit(addChildNode(SelectedOrRoot))
  \/ ShellEdit(renameNode(SelectedOrRoot, FindNode(document.nodes, SelectedOrRoot).title))
  \/ ShellEdit(undo)
  \/ \E t \in shell.autosaveTimerRef : TimerFire(t, TRUE)
  \/ \E r \in saves : SaveConflict(r)
  \/ \E r \in saves : SaveWriteRows(r)
  \/ \E r \in saves : SaveComplete(r)

PipelineNext == PipelineStep /\ Within(MaxPipelineSaves, 0)

SpecPipeline == Init /\ [][PipelineNext]_vars

\* A started timer fires, and a fetch that was sent gets its reply.
PipelineFairness ==
  /\ WF_vars((\E t \in shell.autosaveTimerRef : TimerFire(t, TRUE))
               /\ Within(MaxPipelineSaves, 0))
  /\ WF_vars((\E r \in saves : SaveConflict(r) \/ SaveWriteRows(r) \/ SaveComplete(r))
               /\ Within(MaxPipelineSaves, 0))
  /\ WF_vars((\E l \in loads : LoadComplete(l, TRUE)) /\ Within(MaxPipelineSaves, 0))

SpecPipelineFair == SpecPipeline /\ PipelineFairness

\* ------------------------------------------------ tree vocabulary of the claims
\* The document before the last pushed operation (history is 1-based here).
PreNodes == history[historyIndex].nodes

\* n's parent chain reaches `top` in at most `steps` parentId links.
RECURSIVE ChainReaches(_, _, _, _)
ChainReaches(nodes, n, top, steps) ==
  IF n = top THEN TRUE
  ELSE IF steps = 0 \/ ~HasNode(nodes, n) THEN FALSE
  ELSE ChainReaches(nodes, FindNode(nodes, n).parentId, top, steps - 1)

\* The ids of the nodes strictly below x: the transitive closure over parentId.
StrictDescendants(nodes, x) ==
  {n \in NodeIds(nodes) \ {x} : ChainReaches(nodes, n, x, Len(nodes))}

Depth2Exists(nodes) ==
  \E a \in NodeIds(nodes), b \in NodeIds(nodes) :
    /\ FindNode(nodes, a).parentId = RootId
    /\ FindNode(nodes, b).parentId = a

\* C1: every node of the document is reachable from root by parentId links:
\* root is present with a null parent, every other parentId names a node of
\* the document, and every parent chain ends at root.
C1_NoOrphans ==
  /\ HasNode(document.nodes, RootId)
  /\ \A k \in 1..Len(document.nodes) :
       LET n == document.nodes[k]
       IN /\ (n.id = RootId) => (n.parentId = Null)
          /\ (n.id # RootId) => HasNode(document.nodes, n.parentId)
          /\ ChainReaches(document.nodes, n.id, RootId, Len(document.nodes))

\* A subtree was deleted and a subtree of depth two was moved: the cases in
\* which an orphan or a cycle could appear.
C1_Witness ==
  \/ /\ lastOp.op = "deleteNode"
     /\ historyIndex > 0
     /\ StrictDescendants(PreNodes, lastOp.a) # {}
  \/ /\ lastOp.op = "moveNode"
     /\ historyIndex > 0
     /\ document.nodes # PreNodes
     /\ Depth2Exists(document.nodes)

\* The node itself and everything below it.
Subtree(nodes, x) == {x} \cup StrictDescendants(nodes, x)

\* C2: moveNode(n, p, i) with p = n or p a descendant of n leaves the whole
\* editor state unchanged: a moveNode call that takes effect never has its
\* target inside the moved subtree, and one that does not take effect
\* changes nothing.
C2_MoveIntoSubtreeIsNoOp ==
  [][(lastOp'.op = "moveNode") =>
       IF lastOp'.path = "ok"
         THEN lastOp'.b \notin Subtree(document.nodes, lastOp'.a)
         ELSE UNCHANGED editorVars]_vars

\* moveNode was called on a present non-root node with one of its proper
\* descendants as the target parent.
C2_Witness ==
  /\ lastOp.op = "moveNode"
  /\ lastOp.path = "cycle"
  /\ lastOp.a # RootId
  /\ HasNode(document.nodes, lastOp.a)
  /\ lastOp.b \in StrictDescendants(document.nodes, lastOp.a)
  /\ document = prevDoc

\* C3: deleteNode(x) on a present non-root x removes exactly x and its
\* descendants; the other nodes stay as they were, in place.
C3_DeleteRemovesSubtree ==
  (lastOp.op = "deleteNode" /\ lastOp.path = "ok" /\ HasNode(prevDoc.nodes, lastOp.a))
  => LET gone == Subtree(prevDoc.nodes, lastOp.a)
     IN /\ document.nodes = SelectSeq(prevDoc.nodes, LAMBDA n : n.id \notin gone)
        /\ NodeIds(document.nodes) = NodeIds(prevDoc.nodes) \ gone
        /\ Len(document.nodes) = Len(prevDoc.nodes) - Cardinality(gone)

\* A node that had a child was deleted, and both are gone.
C3_Witness ==
  /\ lastOp.op = "deleteNode"
  /\ historyIndex > 0
  /\ HasNode(PreNodes, lastOp.a)
  /\ StrictDescendants(PreNodes, lastOp.a) # {}
  /\ Len(document.nodes) = Len(PreNodes) - 1 - Cardinality(StrictDescendants(PreNodes, lastOp.a))

\* The operations that replace the document and push a history entry.
StateChangingOps ==
  {"addChildNode", "addSiblingNode", "renameNode", "deleteNode", "moveNode", "importDocument"}

SetOf(list) == {list[k] : k \in 1..Len(list)}
SameNodesAndEdges(d1, d2) ==
  /\ SetOf(d1.nodes) = SetOf(d2.nodes)
  /\ SetOf(d1.edges) = SetOf(d2.edges)

\* C4: an undo directly after a state-changing operation O restores the node
\* and edge sets of the document O was applied to, and a redo directly after
\* that undo restores the node and edge sets O produced.
C4_UndoRedoRoundTrip ==
  [][/\ (lastOp.path = "ok" /\ lastOp.op \in StateChangingOps /\ lastOp'.op = "undo")
          => (lastOp'.path = "ok" /\ SameNodesAndEdges(document', prevDoc))
     /\ (lastOp'.op = "redo" /\ lastOp.op = "undo" /\ lastOp.path = "ok"
           /\ lastOp.b \in StateChangingOps)
          => (lastOp'.path = "ok" /\ SameNodesAndEdges(document', prevDoc))]_vars

\* A redo ran directly after the undo of a state-changing operation, and
\* brought back a document that differs from the undone one.
C4_Witness ==
  /\ lastOp.op = "redo"
  /\ lastOp.path = "ok"
  /\ lastOp.b \in StateChangingOps
  /\ ~SameNodesAndEdges(document, prevDoc)
  /\ document.edges # << >>

\* ---------------------------------------------------- claims on the pipeline
\* C5: a save whose sheet got another token than the one the client loaded,
\* at any moment before the save completed (after its check included), does
\* not succeed: it does not overwrite the other writer's rows and does not
\* set lastSavedSignatureRef.
C5_RacedSaveConflicts ==
  (lastOp.op = "saveSettle" /\ lastOp.b = "raced") => lastOp.path # "success"

\* C6: at every moment at most one saveMindmap call is on its way for a sheet.
C6_OneSavePerTarget ==
  \A t \in Sheets : Cardinality({r \in saves : r.sheetTitle = t}) <= 1

\* C7: the completion of a save whose version is no longer the current one
\* changes none of lastSavedSignatureRef, remoteUpdatedAtRef, hasSyncConflict,
\* syncStatus, saveInFlightRef and saveQueuedRef, and starts no timer.
C7_StaleCompletionChangesNothing ==
  [][(lastOp'.op = "saveSettle" /\ lastOp'.a = "stale") =>
       /\ shell'.lastSavedSignatureRef = shell.lastSavedSignatureRef
       /\ shell'.remoteUpdatedAtRef = shell.remoteUpdatedAtRef
       /\ shell'.hasSyncConflict = shell.hasSyncConflict
       /\ shell'.syncStatus = shell.syncStatus
       /\ shell'.saveInFlightRef = shell.saveInFlightRef
       /\ shell'.saveQueuedRef = shell.saveQueuedRef
       /\ shell'.autosaveTimerRef = shell.autosaveTimerRef]_vars

\* The timer of a burst of two or more edits is no longer pending.
BurstOver == ghost.burstEdits = 2 /\ shell.autosaveTimerRef = {}

\* One saveMindmap call was issued since the burst began, and while it is on
\* its way it carries the document as it is now (no edit followed the burst).
OneSaveCarryingFinal ==
  /\ ghost.burstSaves = 1
  /\ saves # {} => \E r \in saves : r.document = documentForSave(document, shell)

\* C8 as stated: with editing permitted, no save in flight and no conflict,
\* two or more consecutive edits, each made before the timer of the previous
\* one fires, result in exactly one saveMindmap call, which carries the
\* document as it is after the last edit.
C8_BurstExactlyOneSave == BurstOver => OneSaveCarryingFinal

\* C8, amended: such a burst results in exactly one saveMindmap call carrying
\* the document as it is after the last edit, unless the last edit brought
\* the content back to the last saved one, and then in none.
C8_BurstOneSaveUnlessReverted ==
  BurstOver =>
    \/ OneSaveCarryingFinal
    \/ ghost.burstSaves = 0 /\ Content(document, shell) = shell.lastSavedSignatureRef

\* A burst of two edits that left a new node was followed by the one call,
\* still on its way with that node.
C8_Witness ==
  /\ BurstOver
  /\ ghost.burstSaves = 1
  /\ \E r \in saves : r.document = documentForSave(document, shell) /\ Len(r.document.nodes) = 2

\* C9: while the content of the document does not change and no request
\* fails, the runs of the autosave handler (before the timer fires, while the
\* save is in flight, after it succeeded) issue at most one saveMindmap call.
C9_SameContentOneSave == ~ghost.failed => ghost.issued <= 1

\* C10: from the moment a conflict is flagged until a load completes, the
\* flag stays, the status chip shows the conflict, no timer is pending and no
\* saveMindmap call is issued, whatever is edited meanwhile.
C10_NoSaveAfterConflict ==
  [][shell.hasSyncConflict =>
       \/ lastOp'.op = "importDocument"
       \/ /\ shell'.hasSyncConflict
          /\ syncLabel(shell', loads' # {}) = "Conflict"
          /\ shell'.autosaveTimerRef = {}
          /\ env'.saves = env.saves]_vars

\* With the conflict flagged and saves still allowed by the bound, an edit
\* changed the content away from the last saved one.
C10_Witness ==
  /\ shell.hasSyncConflict
  /\ lastOp.op \in {"addChildNode", "undo"}
  /\ lastOp.path = "ok"
  /\ Content(document, shell) # shell.lastSavedSignatureRef
  /\ env.saves < MaxSaves

\* ------------------------------------------------------ claims on the editor
\* The operations on nodes that C12 names.
NodeOps == {"addChildNode", "addSiblingNode", "renameNode", "deleteNode", "moveNode"}

\* C12: a call of addChildNode, addSiblingNode, renameNode, deleteNode or
\* moveNode with a node id that is not in the document, of addSiblingNode,
\* deleteNode or moveNode on root, of renameNode with a title that is empty
\* once trimmed, or of moveNode with a target parent that is not in the
\* document, leaves the whole editor state unchanged.
C12_InvalidCallsAreNoOps ==
  [][(/\ lastOp'.op \in NodeOps
      /\ \/ lastOp'.path \in {"noParent", "noNode", "root", "emptyTitle", "noTarget"}
         \/ ~HasNode(document.nodes, lastOp'.a))
       => UNCHANGED editorVars]_vars

\* C13: a state-changing operation leaves history as the entries up to the
\* old historyIndex followed by exactly one snapshot, that of the new
\* document, with historyIndex at the last entry; a redo directly after it
\* is a no-op.
C13_PushTruncatesRedoTail ==
  [][/\ (lastOp'.op \in StateChangingOps /\ lastOp'.path = "ok") =>
          /\ Len(history') = historyIndex + 2
          /\ SubSeq(history', 1, historyIndex + 1) = SubSeq(history, 1, historyIndex + 1)
          /\ history'[Len(history')].nodes = document'.nodes
          /\ history'[Len(history')].edges = document'.edges
          /\ historyIndex' = Len(history') - 1
     /\ (lastOp.op \in StateChangingOps /\ lastOp.path = "ok" /\ lastOp'.op = "redo") =>
          /\ lastOp'.path = "atEnd"
          /\ UNCHANGED editorVars]_vars

\* A second node was added after the first add was undone: two ids were
\* handed out and the history holds the start and one add only.
C13_Witness ==
  /\ lastOp.op = "addChildNode"
  /\ lastOp.path = "ok"
  /\ nextId = 2
  /\ Len(history) = 2
  /\ historyIndex = 1

\* C14: undo is a no-op at historyIndex 0 and otherwise decrements it; redo
\* is a no-op at the last entry and otherwise increments it; when they move,
\* the nodes and edges of the document become those of the snapshot at the
\* new index, its id and title stay, and history is unchanged.
C14_UndoRedoStep ==
  [][/\ (lastOp'.op = "undo") =>
          IF historyIndex = 0 THEN UNCHANGED editorVars
          ELSE /\ historyIndex' = historyIndex - 1
               /\ document'.nodes = history[historyIndex' + 1].nodes
               /\ document'.edges = history[historyIndex' + 1].edges
               /\ document'.id = document.id
               /\ document'.title = document.title
               /\ history' = history
     /\ (lastOp'.op = "redo") =>
          IF historyIndex = Len(history) - 1 THEN UNCHANGED editorVars
          ELSE /\ historyIndex' = historyIndex + 1
               /\ document'.nodes = history[historyIndex' + 1].nodes
               /\ document'.edges = history[historyIndex' + 1].edges
               /\ document'.id = document.id
               /\ document'.title = document.title
               /\ history' = history]_vars

\* The import of a document with another title and an edge was undone: the
\* nodes and edges are those of the start, the id and title the imported ones.
C14_Witness ==
  /\ lastOp.op = "undo"
  /\ lastOp.path = "ok"
  /\ lastOp.b = "importDocument"
  /\ document.title = "S2"
  /\ document.edges = << >>
  /\ prevDoc.edges # << >>

\* C15: an undo or redo that changes historyIndex empties the collapsed-set
\* and leaves selectedNodeId as it was.
C15_UndoRedoFrame ==
  [][(lastOp'.op \in {"undo", "redo"} /\ historyIndex' # historyIndex) =>
       /\ collapsedNodeIds' = {}
       /\ selectedNodeId' = selectedNodeId]_vars

\* The add of the selected node was undone: the selection names a node that
\* is no longer in the document.
C15_Witness ==
  /\ lastOp.op = "undo"
  /\ lastOp.path = "ok"
  /\ selectedNodeId # Null
  /\ ~HasNode(document.nodes, selectedNodeId)

\* The number of nodes of the list whose parent is p.
CountChildren(nodes, p) == Cardinality({k \in 1..Len(nodes) : nodes[k].parentId = p})

\* C16: addChildNode(p) with p present, and addSiblingNode(n) with n present
\* and not root (p being the parent of n), add exactly one node, with an id
\* that was not in the document, parentId p and order the number of direct
\* children p had; the other nodes are as they were and the new node is
\* selected.
C16_AddOneNode ==
  (lastOp.op \in {"addChildNode", "addSiblingNode"} /\ lastOp.path = "ok") =>
    LET p == IF lastOp.op = "addChildNode" THEN lastOp.a
             ELSE FindNode(prevDoc.nodes, lastOp.a).parentId
        added == document.nodes[Len(document.nodes)]
    IN /\ Len(document.nodes) = Len(prevDoc.nodes) + 1
       /\ SubSeq(document.nodes, 1, Len(prevDoc.nodes)) = prevDoc.nodes
       /\ added.id \notin NodeIds(prevDoc.nodes)
       /\ added.parentId = p
       /\ added.order = CountChildren(prevDoc.nodes, p)
       /\ selectedNodeId = added.id

\* A sibling was added to a node below root that is not the only child.
C16_Witness ==
  /\ lastOp.op = "addSiblingNode"
  /\ lastOp.path = "ok"
  /\ document.nodes[Len(document.nodes)].order = 1
  /\ selectedNodeId = document.nodes[Len(document.nodes)].id

\* C17: a node created by addChildNode or addSiblingNode is the last of its
\* parent's children when they are listed in the sibling ordering, whatever
\* was added and deleted before.
C17_AddAppendsToEnd ==
  (lastOp.op \in {"addChildNode", "addSiblingNode"} /\ lastOp.path = "ok") =>
    LET added == document.nodes[Len(document.nodes)]
        listed == sortSiblingNodes(ChildrenOf(document.nodes, added.parentId))
    IN listed[Len(listed)].id = added.id

\* The ids of a list of nodes, in order.
IdsOf(list) == [k \in 1..Len(list) |-> list[k].id]

\* The children of p in the sibling ordering carry the order values 0, 1, ...
NumberedFromZero(nodes, p) ==
  LET listed == sortSiblingNodes(ChildrenOf(nodes, p))
  IN \A k \in 1..Len(listed) : listed[k].order = k - 1

\* What C18 states of a step moveNode(n, p, i) that took effect.
MovePost(n, p, i) ==
  LET oldParent == FindNode(document.nodes, n).parentId
      others(q) == IdsOf(sortSiblingNodes(
                     ChildrenOf(SelectSeq(document.nodes, LAMBDA x : x.id # n), q)))
      at == Max(0, Min(i, Len(others(p))))
  IN /\ FindNode(document'.nodes, n).parentId = p
     /\ NumberedFromZero(document'.nodes, p)
     /\ IdsOf(sortSiblingNodes(ChildrenOf(document'.nodes, p)))
          = SubSeq(others(p), 1, at) \o <<n>> \o SubSeq(others(p), at + 1, Len(others(p)))
     /\ oldParent # p =>
          /\ NumberedFromZero(document'.nodes, oldParent)
          /\ IdsOf(sortSiblingNodes(ChildrenOf(document'.nodes, oldParent))) = others(oldParent)
     /\ Len(document'.nodes) = Len(document.nodes)
     /\ \A k \in 1..Len(document.nodes) :
          (document.nodes[k].id # n /\ document.nodes[k].parentId \notin {p, oldParent})
            => document'.nodes[k] = document.nodes[k]

\* C18: after a valid moveNode(n, p, i) n is a child of p, the children of p
\* in the sibling ordering carry the order values 0..k-1 with n at position
\* clamp(i, 0, number of the other children of p) and the others in their
\* previous relative order, the children left with another old parent carry
\* 0..m-1 in their previous relative order, the number of nodes is unchanged
\* and so is every node that is a child of neither parent.
C18_MoveRenumbers ==
  [][\A n \in ArgIds, p \in ArgIds, i \in IndexInputs :
       (moveNode(n, p, i) /\ lastOp'.path = "ok") => MovePost(n, p, i)]_vars

\* The example of the claim: root with N1 (order 0) and N2 (order 1), and
\* N2 moved to the front.
C18_Witness ==
  /\ lastOp = Op("moveNode", "n2", RootId)
  /\ IdsOf(sortSiblingNodes(ChildrenOf(prevDoc.nodes, RootId))) = <<"n1", "n2">>
  /\ IdsOf(sortSiblingNodes(ChildrenOf(document.nodes, RootId))) = <<"n2", "n1">>
  /\ FindNode(document.nodes, "n2").order = 0
  /\ FindNode(document.nodes, "n1").order = 1

\* C19: renameNode(n, t) with n present and t not empty once trimmed sets
\* the title of n to the trimmed t (" B " gives "B") and changes nothing
\* else of the nodes and edges, nor the selection, nor the collapsed-set.
C19_RenameOnlyTitle ==
  [][\A n \in ArgIds, t \in TitleInputs :
       (renameNode(n, t) /\ lastOp'.path = "ok" /\ HasNode(document.nodes, n)) =>
         /\ t = " B " => FindNode(document'.nodes, n).title = "B"
         /\ document'.nodes = [k \in 1..Len(document.nodes) |->
                                 IF document.nodes[k].id = n
                                   THEN [document.nodes[k] EXCEPT !.title = Trim(t)]
                                   ELSE document.nodes[k]]
         /\ document'.edges = document.edges
         /\ UNCHANGED <<selectedNodeId, collapsedNodeIds>>]_vars

\* A node below root was renamed while another node was selected.
C19_Witness ==
  /\ lastOp.op = "renameNode"
  /\ lastOp.path = "ok"
  /\ lastOp.a # RootId
  /\ HasNode(prevDoc.nodes, lastOp.a)
  /\ FindNode(document.nodes, lastOp.a).title = "B"
  /\ FindNode(prevDoc.nodes, lastOp.a).title = DefaultTitle
  /\ selectedNodeId # lastOp.a
  /\ Len(document.nodes) = 3

\* C20: after deleteNode(x) for a non-root x the selection is root, and in
\* every state every id of the collapsed-set is the id of a node of the
\* document.
C20_DeleteSelectsRootCollapsedExist ==
  /\ (lastOp.op = "deleteNode" /\ lastOp.path = "ok") => selectedNodeId = RootId
  /\ collapsedNodeIds \subseteq NodeIds(document.nodes)

\* The example of the claim: of root, A below root and B below A, A was
\* deleted, and root alone is left, selected.
C20_Witness ==
  /\ lastOp.op = "deleteNode"
  /\ lastOp.path = "ok"
  /\ Len(prevDoc.nodes) = 3
  /\ HasNode(prevDoc.nodes, lastOp.a)
  /\ FindNode(prevDoc.nodes, lastOp.a).parentId = RootId
  /\ StrictDescendants(prevDoc.nodes, lastOp.a) # {}
  /\ IdsOf(document.nodes) = <<RootId>>
  /\ selectedNodeId = RootId

\* lastSavedSignatureRef is the signature of the document as it would be saved.
Converged == shell.lastSavedSignatureRef = Content(document, shell)

\* Editing stays permitted, no conflict is raised, every save succeeds, the
\* document stops changing (and the run stays within its bound on saves).
C11_Premise ==
  /\ <>[]canEditGraph(shell)
  /\ []~shell.hasSyncConflict
  /\ [](lastOp.op = "saveSettle" => lastOp.path = "success")
  /\ [](env.saves < MaxPipelineSaves)
  /\ <>[][document' = document]_vars

\* C11: if editing stays permitted, no conflict is raised, every save
\* succeeds and the document stops changing, then from some moment on
\* lastSavedSignatureRef is the signature of the document.
C11_Convergence == C11_Premise => <>[]Converged


\* C21: in every reachable editor state, also after importDocument of a
\* document loadMindmap returned, exactly one node has parentId = null and that
\* node has id "root".
NullParented(nodes) == {k \in 1..Len(nodes) : nodes[k].parentId = Null}
C21_SingleRoot ==
  /\ Cardinality(NullParented(document.nodes)) = 1
  /\ \A k \in NullParented(document.nodes) : document.nodes[k].id = RootId

\* C21, second half: no operation removes the root node or gives it a parent.
C21_RootStays ==
  /\ HasNode(document.nodes, RootId)
  /\ FindNode(document.nodes, RootId).parentId = Null


\* C22: for every document d handed to importDocument, also one without a
\* root node, the document after the import holds a root node, holds every
\* node of d unchanged and in d's order, has exactly d's edges, the
\* collapsed-set is empty and the selection is a node of the new document.
IsSuffix(part, whole) ==
  /\ Len(part) <= Len(whole)
  /\ SubSeq(whole, Len(whole) - Len(part) + 1, Len(whole)) = part
ImportPost(d) ==
  /\ HasNode(document'.nodes, RootId)
  /\ IsSuffix(d.nodes, document'.nodes)
  /\ document'.edges = d.edges
  /\ collapsedNodeIds' = {}
  /\ HasNode(document'.nodes, selectedNodeId')
C22_ImportKeepsContent ==
  [][\A d \in ImportDocs \cup LoadableDocs : importDocument(d) => ImportPost(d)]_vars

\* A document without a root node has been imported: the root node was put in
\* front of its node and is selected.
C22_Witness ==
  /\ lastOp.op = "importDocument"
  /\ Len(document.nodes) = 2
  /\ document.nodes[1].id = RootId
  /\ document.nodes[2] = DocNoRoot.nodes[1]
  /\ selectedNodeId = RootId
  /\ collapsedNodeIds = {}


\* C23: addChildNode, addSiblingNode, renameNode, deleteNode and moveNode never
\* change the edges of the document, also when an edge names a node that the
\* operation deletes.
C23_NodeOpsKeepEdges ==
  [][lastOp'.op \in NodeOps => document'.edges = document.edges]_vars

\* A node has been deleted and the edge that ends in it is still there.
C23_Witness ==
  /\ lastOp.op = "deleteNode"
  /\ lastOp.path = "ok"
  /\ HasNode(prevDoc.nodes, RemoteEdge.toNodeId)
  /\ ~HasNode(document.nodes, RemoteEdge.toNodeId)
  /\ document.edges = <<RemoteEdge>>


\* C24: when a save that is still current completes with an error that is no
\* conflict, the conflict flag is not set, lastSavedSignature and the remote
\* baseline keep their values, the status the component renders is "error",
\* and unless saveQueued was set during the flight no timer is armed and no
\* save is in flight afterwards: the failed save is not tried again.
ErrorPost(r) ==
  LET finished == SettleFinished(shell, r, "error", NoToken)
  IN /\ finished.syncStatus = "error"
     /\ ~finished.hasSyncConflict
     /\ ~shell'.hasSyncConflict
     /\ shell'.lastSavedSignatureRef = shell.lastSavedSignatureRef
     /\ shell'.remoteUpdatedAtRef = shell.remoteUpdatedAtRef
     /\ ~shell.saveQueuedRef =>
           /\ shell'.syncStatus = "error"
           /\ shell'.autosaveTimerRef = {}
           /\ ~shell'.saveInFlightRef
           /\ ~shell'.saveQueuedRef
           /\ saves' = saves \ {r}
C24_ErrorKeepsBaselineNoRetry ==
  [][\A r \in saves : (SaveFail(r) /\ ~SettleStale(shell, r)) => ErrorPost(r)]_vars

\* A current save has failed with nothing queued, the document still differs
\* from what was last saved, and nothing is armed.
C24_Witness ==
  /\ lastOp.op = "saveSettle"
  /\ lastOp.path = "error"
  /\ lastOp.a = "current"
  /\ shell.syncStatus = "error"
  /\ Content(document, shell) # shell.lastSavedSignatureRef
  /\ shell.autosaveTimerRef = {}


\* C25: no outcome of a save request (success, conflict, another error, a
\* stale completion) changes the document, the history, historyIndex, the
\* selection or the collapsed-set of the editor.
C25_SaveOutcomeKeepsEditor ==
  [][lastOp'.op = "saveSettle" =>
       UNCHANGED <<document, history, historyIndex, selectedNodeId, collapsedNodeIds>>]_vars

\* A save has ended in a conflict and the edit it carried is still in the
\* document and in the history.
C25_Witness ==
  /\ lastOp.op = "saveSettle"
  /\ lastOp.path = "conflict"
  /\ lastOp.a = "current"
  /\ Content(document, shell) # shell.lastSavedSignatureRef
  /\ history[historyIndex + 1].nodes = document.nodes
  /\ historyIndex >= 1


\* C26: after a switch of the sheet or a reload of the remote copy has loaded
\* its document, and after a sign-out, the pipeline is invalidated: the
\* generation counter has grown, so that every request still on its way is
\* stale, saveInFlight and saveQueued are false, no debounce timer is pending
\* and the conflict flag is false; after a switch or reload lastSavedSignature
\* and the remote baseline are those of the document that was loaded.
\* (autosaveVersionRef only grows and is only compared for equality: that it
\* has grown past the requests under way shows as differing from each.)
Invalidated ==
  /\ \A r \in saves' : r.requestVersion # shell'.autosaveVersionRef
  /\ ~shell'.saveInFlightRef
  /\ ~shell'.saveQueuedRef
  /\ shell'.autosaveTimerRef = {}
  /\ ~shell'.hasSyncConflict
LoadedBaseline(l) ==
  /\ shell'.lastSavedSignatureRef = createDocumentSignature(loadedDocument(l.rows, l.sheetTitle))
  /\ shell'.remoteUpdatedAtRef =
       IF StoredToken(store.meta, l.sheetTitle) # NoToken
         THEN StoredToken(store.meta, l.sheetTitle) ELSE LoadTime
C26_SwitchReloadLogoutInvalidate ==
  [][/\ handleLogout => Invalidated
     /\ \A l \in loads :
          (LoadComplete(l, TRUE) /\ l.kind \in {"sheet", "reload"})
            => (Invalidated /\ LoadedBaseline(l))]_vars


\* C27: when a load has completed and its document has been imported, the
\* signature of the editor's document with the selected sheet title applied
\* equals lastSavedSignature, the remote baseline is the token that load
\* reported, and no timer is armed: without an edit no save is issued.
LoadReported(l, metaRead) ==
  LET stored == StoredToken(IF metaRead THEN store.meta ELSE EmptyMeta, l.sheetTitle)
  IN IF stored # NoToken THEN stored ELSE LoadTime
C27_LoadLeavesNothingToSave ==
  [][\A l \in loads, metaRead \in BOOLEAN :
       LoadComplete(l, metaRead) =>
         /\ Content(document', shell') = shell'.lastSavedSignatureRef
         /\ shell'.remoteUpdatedAtRef = LoadReported(l, metaRead)
         /\ shell'.autosaveTimerRef = {}]_vars


\* C28: while editing is locked (not authorized, or no spreadsheet or no
\* sheet selected, or no graph loaded) no add, rename, delete, move, undo or
\* redo is applied to the document, and no save is scheduled.
StructuralOps ==
  {"addChildNode", "addSiblingNode", "renameNode", "deleteNode", "moveNode", "undo", "redo"}
C28_LockedNoMutationNoSave ==
  [][/\ ~canEditGraph(shell) => ~(lastOp'.op \in StructuralOps /\ lastOp'.path = "ok")
     /\ ~canEditGraph(shell) => (\A t \in shell.autosaveTimerRef, m \in BOOLEAN : ~TimerFire(t, m))
     /\ ~canEditGraph(shell') => shell'.autosaveTimerRef = {}]_vars


\* C29 as stated: in every reachable state of the menu bar at most one of
\* the menus File and Edit is open.
C29_AtMostOneMenuOpen == Cardinality(shell.openMenus) <= 1

\* C29, amended: the toggle event of a menu that is open closes every other
\* menu, and whenever no toggle event is waiting to be fired at most one menu
\* is open.
C29_OneMenuOnceToggled ==
  [][/\ \A m \in Menus :
          (handleMenuToggle(m) /\ m \in shell.openMenus) => shell'.openMenus = {m}
     /\ shell'.toggleTasks = {} => Cardinality(shell'.openMenus) <= 1]_vars

\* The toggle event of the Edit menu has closed the File menu.
C29_Witness ==
  /\ lastOp.op = "handleMenuToggle"
  /\ lastOp.a = "edit"
  /\ lastOp.path = "closedOthers"
  /\ shell.openMenus = {"edit"}
  /\ shell.toggleTasks = {"file"}


\* C30: a loadMindmap of a sheet that directly follows a successful
\* saveMindmap of a document D to that sheet returns D's nodes (id, title,
\* parentId, order) and D's edges, each in D's sequence, and the version token
\* that save returned.
C30_SaveLoadRoundTrip ==
  [][\A t \in Sheets, metaRead \in BOOLEAN :
       (/\ loadMindmap(t, metaRead)
        /\ lastOp.op = "saveMindmap" /\ lastOp.path = "ok" /\ lastOp.a = t)
         => /\ prevDoc'.nodes = prevDoc.nodes
            /\ prevDoc'.edges = prevDoc.edges
            /\ lastOp'.b = lastOp.b]_vars


\* C31: when a save that is not stale completes with success,
\* lastSavedSignatureRef becomes the signature computed when the save was
\* scheduled (whatever the document is by then), remoteUpdatedAtRef becomes
\* the token the save returned and the conflict flag is down; and
\* lastSavedSignatureRef changes in no other step but the completion of a load.
C31_SuccessTakesScheduledSignature ==
  [][/\ \A r \in saves :
          (SaveComplete(r) /\ ~SettleStale(shell, r))
            => (/\ shell'.lastSavedSignatureRef = createDocumentSignature(r.document)
                /\ shell'.remoteUpdatedAtRef = StoredToken(store'.meta, r.sheetTitle)
                /\ ~shell'.hasSyncConflict)
     /\ (shell'.lastSavedSignatureRef # shell.lastSavedSignatureRef)
           => (\/ \E r \in saves : SaveComplete(r) /\ ~SettleStale(shell, r)
               \/ \E l \in loads, metaRead \in BOOLEAN : LoadComplete(l, metaRead))]_vars

\* A save has completed with success, not stale, after the document had
\* changed under it.
C31_Witness ==
  /\ lastOp.op = "saveSettle" /\ lastOp.a = "current" /\ lastOp.path = "success"
  /\ canEditGraph(shell)
  /\ shell.lastSavedSignatureRef # Content(document, shell)


\* C32: when a save settles that had a save queued behind it (the document
\* changed while it was in flight), then after a success or an error that is
\* no conflict the autosave effect has run again on the document as it is
\* now and, its signature differing from lastSavedSignatureRef, a timer for a
\* new save of that document is started; after a conflict nothing is queued
\* and no timer is started.
C32_QueuedSaveRunsUnlessConflict ==
  [][(lastOp'.op = "saveSettle" /\ shell.saveQueuedRef)
       => IF lastOp'.path = "conflict"
            THEN ~shell'.saveQueuedRef /\ shell'.autosaveTimerRef = {}
            ELSE /\ ~shell'.saveQueuedRef
                 /\ Content(document, shell') # shell'.lastSavedSignatureRef
                      => \E t \in shell'.autosaveTimerRef :
                            t.document = documentForSave(document, shell')]_vars


\* A load issued after l has been answered already (loads are numbered in the
\* order they are issued, and none fails in SpecSession).
AnsweredAfter(l) ==
  Cardinality({x \in loads : x.id > l.id}) < env.loads - l.id

\* C33: the response of a load that arrives after the response of a load
\* issued later (a reload, or the load of a sheet switched to) replaces
\* neither the document of the editor nor lastSavedSignatureRef nor
\* remoteUpdatedAtRef.
C33_LateLoadResponseDropped ==
  [][\A l \in loads :
       (LoadComplete(l, TRUE) /\ AnsweredAfter(l))
         => /\ document' = document
            /\ shell'.lastSavedSignatureRef = shell.lastSavedSignatureRef
            /\ shell'.remoteUpdatedAtRef = shell.remoteUpdatedAtRef]_vars


\* C34: from the call of handleLogout until a load completes, no saveMindmap
\* call is issued, whatever edits are made, timers fire and whenever the
\* asynchronous logout comes back.
C34_NoSaveWhileSigningOut ==
  [][ghost.signedOut
       => ~\E t \in shell.autosaveTimerRef, metaRead \in BOOLEAN : TimerFire(t, metaRead)]_vars


\* C35: every operation leaves each history entry that is still there
\* afterwards (the entries up to the old historyIndex, as far as the new
\* history reaches) with the nodes and the edges it had; an edit of the live
\* document alters no stored snapshot.
C35_SnapshotsKeepContent ==
  [][\A k \in 1..Min(historyIndex + 1, Len(history')) :
       /\ history'[k].nodes = history[k].nodes
       /\ history'[k].edges = history[k].edges]_vars

\* A rename took effect on a document that has an earlier snapshot, which
\* still shows the title from before.
C35_Witness ==
  /\ lastOp.op = "renameNode" /\ lastOp.path = "ok"
  /\ historyIndex >= 1
  /\ history[historyIndex].nodes # document.nodes
  /\ history[historyIndex + 1].nodes = document.nodes


\* C36: in every reachable state of the editor historyIndex is a position of
\* history (0 <= historyIndex < length), and the nodes and the edges of the
\* live document are those of the snapshot at historyIndex.
C36_DocumentIsCurrentSnapshot ==
  /\ 0 <= historyIndex
  /\ historyIndex < Len(history)
  /\ document.nodes = history[historyIndex + 1].nodes
  /\ document.edges = history[historyIndex + 1].edges

\* An undo took the editor back to a snapshot that is neither the first nor
\* the last of the history, and whose nodes differ from the ones undone.
C36_Witness ==
  /\ lastOp.op = "undo" /\ lastOp.path = "ok"
  /\ historyIndex >= 1
  /\ historyIndex + 1 < Len(history)
  /\ prevDoc.nodes # document.nodes


\* C37: with no other client writing into the store, no save the autosave
\* pipeline issues is refused as a conflict, whatever the interleaving of
\* edits, timers, reloads and the completions of saves and loads.
C37_SingleClientNoConflict ==
  \A r \in saves : r.phase # "conflict"


\* The graph of each sheet of the store has the title of the sheet as the
\* title of its root, which no step of SpecSession changes: the root of a
\* document tells the sheet its content was loaded from or edited under.
OriginOf(doc) == FindNode(doc.nodes, RootId).title

\* C38: every saveMindmap request carries content that was loaded from, or
\* edited while loaded from, the sheet it is issued for; the content of the
\* sheet that was selected before is never written into the sheet selected now.
C38_SavesCarryOwnContent ==
  \A r \in saves : OriginOf(r.document) = r.sheetTitle


\* No debounce timer is pending, no save is in flight and no task (a load, a
\* listing, a sign-out) is under way.
Quiescent ==
  /\ shell.autosaveTimerRef = {}
  /\ saves = {}
  /\ ~shell.saveInFlightRef
  /\ loads = {}
  /\ ~shell.logoutPending

\* C39: in every quiescent state whose status chip shows Synced, the
\* signature of the document under the selected sheet title is
\* lastSavedSignatureRef: Synced is never shown over unsaved changes that
\* nothing is scheduled to save.
C39_SyncedMeansSaved ==
  (Quiescent /\ syncLabel(shell, FALSE) = "Synced")
    => Content(document, shell) = shell.lastSavedSignatureRef


\* C40: the computation of the depth of the selected node (following the
\* parentId links until a null or missing parent) terminates in every
\* reachable state, also after the import of any document loadMindmap can
\* return for the rows of a sheet.
C40_DepthTerminates ==
  selectedNodeDepth.returns

====
